---- MODULE Spec2Model ----
(***************************************************************************)
(* A model of the ingestion / classification / aggregation pipeline of     *)
(* agent-timecard: the scan of the sessions directory                      *)
(* (sessions.get_sessions), the extraction of turns                        *)
(* (sessions.extract_messages), the Chunker (sessions.chunk_conversation), *)
(* the classification call (sessions.summarize_and_tag_chunk), the label   *)
(* and project consolidation passes and the map/reduce of generate_report  *)
(* (daily_report.py), the persistence of a report (save_report) and the    *)
(* weekly aggregation (weekly_summary.aggregate_reports).                  *)
(***************************************************************************)
EXTENDS Integers, Sequences, FiniteSets, TLC

VARIABLES
    pc,          \* position of the operation under study
    messages,    \* chunk_conversation: the turns handed in
    max_chars,   \* chunk_conversation: the character budget
    chunks,      \* chunk_conversation: the list of chunks returned
    breakdown,   \* consolidate_priority_names: the label breakdown handed in
    total_turns, \* consolidate_priority_names: the total handed in
    groups,      \* the grouping the oracle writes as its JSON response
    oracle,      \* the outcome of the subprocess call the operation consumed
    consolidated,\* consolidate_priority_names: the list returned
    warnings,    \* the report's warning list
    oracle_calls,\* number of subprocess.run calls made
    chunk,       \* summarize_and_tag_chunk: the chunk handed in
    chunk_result,\* summarize_and_tag_chunk: the dict returned
    projects,    \* consolidate_with_opus: the project list handed in
    project_oracle, \* the outcome of the subprocess call made for each project
    consolidated_projects, \* consolidate_with_opus: the list returned
    sessions,    \* generate_report: the session files get_sessions listed
    task_state,  \* generate_report: the state of each file's future
    task_outcome,\* generate_report: what each file's process_session did
    results,     \* generate_report: the results collected, in order
    completed,   \* generate_report: the futures taken from as_completed
    report,      \* generate_report: the dict returned
    reports,     \* aggregate_reports: the daily reports handed in
    weekly,      \* aggregate_reports: the dict returned
    daily_files, \* save_report: the files of the daily directory, by name
    timeseries,  \* save_report: the rows of hourly/timeseries.jsonl
    saves,       \* the number of save_report calls made
    file_lines,  \* extract_messages: the lines of the session file
    with_timestamps, \* extract_messages: the flag handed in
    extracted,   \* extract_messages: what the call did
    session_result,  \* process_session: what the call did on the file
    log_files,   \* get_sessions: the files rglob yields
    scanned      \* get_sessions: what the call did

chunkVars == <<messages, max_chars, chunks>>
labelVars == <<breakdown, total_turns, groups, consolidated>>
callVars == <<oracle, warnings, oracle_calls>>
classifyVars == <<chunk, chunk_result>>
projectVars == <<projects, project_oracle, consolidated_projects>>
reportVars == <<sessions, task_state, task_outcome, results, completed, report>>
weeklyVars == <<reports, weekly>>
saveVars == <<daily_files, timeseries, saves>>
extractVars == <<file_lines, with_timestamps, extracted, session_result>>
scanVars == <<log_files, scanned>>

vars ==
    <<pc, chunkVars, labelVars, callVars, classifyVars, projectVars, reportVars,
      weeklyVars, saveVars, extractVars, scanVars>>

----------------------------------------------------------------------------
(* Bounds of the model *)

MaxTurns == 3
MaxTextLen == 4
MaxBudget == 2
MaxTurnVal == 2
MaxGroups == 2
MaxRefs == 2
MaxChunkTurns == 2
MaxProjects == 3

----------------------------------------------------------------------------
(* Generic helpers *)

RECURSIVE SumSeq(_)
SumSeq(s) == IF s = <<>> THEN 0 ELSE Head(s) + SumSeq(Tail(s))

RECURSIVE Flatten(_)
Flatten(ss) == IF ss = <<>> THEN <<>> ELSE Head(ss) \o Flatten(Tail(ss))

SeqsUpTo(S, n) == UNION {[1..k -> S] : k \in 0..n}

\* sorted(..., key=lambda x: -Key(x)) and list.sort: a stable sort by
\* non-increasing key
RECURSIVE SortedIndices(_, _)
SortedIndices(keys, n) ==
    IF n = 0 THEN <<>>
    ELSE LET rest == SortedIndices(keys, n - 1)
         IN  SelectSeq(rest, LAMBDA j : keys[j] >= keys[n]) \o <<n>>
                 \o SelectSeq(rest, LAMBDA j : keys[j] < keys[n])

StableSortDesc(es, Key(_)) ==
    LET idx == SortedIndices([i \in 1..Len(es) |-> Key(es[i])], Len(es))
    IN  [i \in 1..Len(es) |-> es[idx[i]]]

\* A Python dict keeps its keys in insertion order: a sequence of
\* [key, val] records, each key once.
DictKeys(d) == {d[i].key : i \in 1..Len(d)}

DictGet(d, k, default) ==
    IF k \in DictKeys(d)
    THEN d[CHOOSE i \in 1..Len(d) : d[i].key = k].val
    ELSE default

\* as DictAdd, assigning the value instead of adding it
DictAssign(d, k, v) ==
    IF k \in DictKeys(d)
    THEN [i \in 1..Len(d) |-> IF d[i].key = k THEN [key |-> k, val |-> v]
                               ELSE d[i]]
    ELSE Append(d, [key |-> k, val |-> v])

\* d[k] = d.get(k, 0) + v
DictAdd(d, k, v) ==
    IF k \in DictKeys(d)
    THEN [i \in 1..Len(d) |->
             IF d[i].key = k THEN [key |-> k, val |-> d[i].val + v] ELSE d[i]]
    ELSE Append(d, [key |-> k, val |-> v])

\* sum(d.values())
DictSum(d) == SumSeq([i \in 1..Len(d) |-> d[i].val])

----------------------------------------------------------------------------
(* Turns.  A text is a sequence of characters; the text of length n is the *)
(* first n characters of a fixed alphabet, so that a prefix, a suffix and  *)
(* a permutation of a text are all different values.                       *)

Alphabet == <<"a", "b", "c", "d", "e", "f", "g", "h">>

Text(n) == [i \in 1..n |-> Alphabet[((i - 1) % Len(Alphabet)) + 1]]

Roles == {"user", "assistant"}

\* extract_messages only appends entries whose stripped text is non-empty
Turns == [role : Roles, text : {Text(n) : n \in 1..MaxTextLen}]

\* the literal "...[truncated]"
TruncSuffix ==
    <<".", ".", ".", "[", "t", "r", "u", "n", "c", "a", "t", "e", "d", "]">>

----------------------------------------------------------------------------
(* sessions.chunk_conversation *)

\* as Truncate, with the suffix marker forgotten
TruncateNoSuffix(text, max) == SubSeq(text, 1, max)

\* text[:max] + "...[truncated]"
Truncate(text, max) == SubSeq(text, 1, max) \o TruncSuffix

\* as ChunkStep, with the size of the incoming turn left out of the test
\* that closes the current chunk
ChunkStepLateFlush(st, msg, max) ==
    LET msg_size == Len(msg.text)
        flush == st.current_size > max /\ st.current_chunk # <<>>
        st1 == IF flush
               THEN [chunks |-> Append(st.chunks, st.current_chunk),
                     current_chunk |-> <<>>,
                     current_size |-> 0]
               ELSE st
        over == msg_size > max
        msg2 == IF over
                THEN [role |-> msg.role,
                      text |-> SubSeq(msg.text, 1, max) \o TruncSuffix]
                ELSE msg
        size2 == IF over THEN max ELSE msg_size
    IN  [chunks |-> st1.chunks,
         current_chunk |-> Append(st1.current_chunk, msg2),
         current_size |-> st1.current_size + size2]

\* one iteration of the loop body over `msg`
ChunkStep(st, msg, max) ==
    LET msg_size == Len(msg.text)
        flush == st.current_size + msg_size > max /\ st.current_chunk # <<>>
        st1 == IF flush
               THEN [chunks |-> Append(st.chunks, st.current_chunk),
                     current_chunk |-> <<>>,
                     current_size |-> 0]
               ELSE st
        over == msg_size > max
        msg2 == IF over
                THEN [role |-> msg.role, text |-> Truncate(msg.text, max)]
                ELSE msg
        size2 == IF over THEN max ELSE msg_size
    IN  [chunks |-> st1.chunks,
         current_chunk |-> Append(st1.current_chunk, msg2),
         current_size |-> st1.current_size + size2]

RECURSIVE ChunkLoop(_, _, _)
ChunkLoop(st, msgs, max) ==
    IF msgs = <<>> THEN st
    ELSE ChunkLoop(ChunkStep(st, Head(msgs), max), Tail(msgs), max)

\* as ChunkFinish, with the trailing append forgotten
ChunkFinishDropLast(st) == st.chunks

\* the trailing `if current_chunk: chunks.append(current_chunk)`
ChunkFinish(st) ==
    IF st.current_chunk # <<>> THEN Append(st.chunks, st.current_chunk)
    ELSE st.chunks

chunk_conversation(msgs, max) ==
    ChunkFinish(ChunkLoop([chunks |-> <<>>, current_chunk |-> <<>>,
                           current_size |-> 0], msgs, max))

----------------------------------------------------------------------------
(* The oracle: a `claude -p` subprocess.  subprocess.run either raises     *)
(* (TimeoutExpired, OSError) or completes with a return code and a stdout. *)
(* A stdout is kept by its form: "empty" (nothing but white space),        *)
(* "garbage" (text that is not what the caller parses), "badshape" and     *)
(* "json" (JSON documents).                                                *)

NoCall == [kind |-> "none"]

Raised == {[kind |-> "raise", error |-> e] :
              e \in {"TimeoutExpired", "FileNotFoundError"}}

ReturnCodes == {0, 1}

Exited(rc, out) == [kind |-> "exit", returncode |-> rc, stdout |-> out]

EmptyOut == [form |-> "empty"]
GarbageOut == [form |-> "garbage"]

\* any JSON value that is not a list of objects with a "name" and a list of
\* integers "items"
BadShapeOut == [form |-> "badshape"]

\* a JSON list of {"name", "items"} objects, inside a ``` fence or not
JsonOut(fenced, value) == [form |-> "json", fenced |-> fenced, value |-> value]

----------------------------------------------------------------------------
(* daily_report.consolidate_priority_names *)

ConsolidateThreshold == 5

\* the smallest breakdown that is sent to the oracle
NumItems == ConsolidateThreshold + 1

ItemNames ==
    <<"P0: A", "P0: A v2", "P1: B", "TOOLING: C", "OFF: D", "OFF: E">>

\* num / den rounded to the nearest integer, ties to even (Python's round)
RoundHalfEven(num, den) ==
    LET q == num \div den
        r2 == 2 * (num % den)
    IN  IF r2 < den THEN q
        ELSE IF r2 > den THEN q + 1
        ELSE IF q % 2 = 0 THEN q ELSE q + 1

\* round(100 * turns / total, 1) if total > 0 else 0, in tenths of a percent
Pct(turns, total) ==
    IF total > 0 THEN RoundHalfEven(1000 * turns, total) ELSE 0

\* the breakdown generate_report builds from per-label turn counts
MkBreakdown(ts) ==
    [i \in 1..Len(ts) |->
        [name |-> ItemNames[i], turns |-> ts[i],
         pct |-> Pct(ts[i], SumSeq(ts))]]

RECURSIVE Pow2(_)
Pow2(n) == IF n = 0 THEN 1 ELSE 2 * Pow2(n - 1)

\* turn counts in non-increasing order (generate_report sorts by -turns):
\* all equal, or all different with every subset sum different
TurnSeqs(n) ==
    {[i \in 1..n |-> k] : k \in 0..MaxTurnVal}
        \cup {[i \in 1..n |-> k * Pow2(n - i)] : k \in 1..MaxTurnVal}

\* An entry of a returned list is either one of the dicts of the input list
\* (the very object, named by its index) or a dict built by the call.
ItemRef(i) == [kind |-> "item", index |-> i]

Deref(bd, e) ==
    IF e.kind = "item" THEN bd[e.index + 1]
    ELSE [name |-> e.name, turns |-> e.turns, pct |-> e.pct]

\* the input list itself
SameList(bd) == [i \in 1..Len(bd) |-> ItemRef(i - 1)]

\* as SkipConsolidation, with < for <=
SkipConsolidationStrict(bd) == Len(bd) < ConsolidateThreshold

\* `if len(breakdown) <= 5: return breakdown`
SkipConsolidation(bd) == Len(bd) <= ConsolidateThreshold

\* output.strip() is empty
OutputEmpty(out) == out.form = "empty"

\* the ``` stripping and json.loads, then the walk over the parsed value:
\* text that is not JSON makes json.loads raise, JSON of another shape makes
\* the loop raise (TypeError, KeyError)
ParseGroups(out) ==
    IF out.form = "json" THEN [ok |-> TRUE, value |-> out.value]
    ELSE [ok |-> FALSE]

\* `i for i in indices if i < len(breakdown)`
GroupUsed(bd, g) == SelectSeq(g.items, LAMBDA i : i < Len(bd))

\* breakdown[i] raises IndexError
IndexError(bd, i) == i >= Len(bd) \/ i < -Len(bd)

\* breakdown[i], a negative i counting from the end
PyItem(bd, i) == IF i >= 0 THEN bd[i + 1] ELSE bd[Len(bd) + i + 1]

GroupRaises(bd, g) ==
    \E k \in 1..Len(GroupUsed(bd, g)) : IndexError(bd, GroupUsed(bd, g)[k])

\* sum(breakdown[i]["turns"] for i in indices if i < len(breakdown))
GroupTurns(bd, g) ==
    LET used == GroupUsed(bd, g)
    IN  SumSeq([k \in 1..Len(used) |-> PyItem(bd, used[k]).turns])

\* as GroupEntry, adding up the percentages the items carry
GroupEntrySummedPct(bd, total, g) ==
    LET used == GroupUsed(bd, g)
    IN  [kind |-> "group", name |-> g.name, turns |-> GroupTurns(bd, g),
         pct |-> SumSeq([k \in 1..Len(used) |-> PyItem(bd, used[k]).pct])]

\* the dict appended for a group
GroupEntry(bd, total, g) ==
    [kind |-> "group", name |-> g.name, turns |-> GroupTurns(bd, g),
     pct |-> Pct(GroupTurns(bd, g), total)]

\* seen_indices after the loop over the groups
SeenIndices(bd, gs) ==
    UNION {{GroupUsed(bd, gs[j])[k] : k \in 1..Len(GroupUsed(bd, gs[j]))} :
              j \in 1..Len(gs)}

\* as MissedItems, with the loop that adds the missed items forgotten
MissedItemsForgotten(bd, seen) == <<>>

\* `for i, item in enumerate(breakdown): if i not in seen_indices: append`
MissedItems(bd, seen) ==
    SelectSeq(SameList(bd), LAMBDA e : e.index \notin seen)

\* list.sort(key=lambda x: -x["turns"]): stable, non-increasing turns
SortByTurns(bd, es) == StableSortDesc(es, LAMBDA e : Deref(bd, e).turns)

\* what the call returns, whether it appended its warning, whether it called
\* the oracle
Returned(es, warned, called) ==
    [returned |-> es, warned |-> warned, called |-> called]

consolidate_priority_names(bd, total, o) ==
    IF SkipConsolidation(bd) THEN Returned(SameList(bd), FALSE, FALSE)
    ELSE IF o.kind = "raise" THEN Returned(SameList(bd), TRUE, TRUE)
    ELSE IF OutputEmpty(o.stdout) THEN Returned(SameList(bd), FALSE, TRUE)
    ELSE LET parsed == ParseGroups(o.stdout) IN
         IF ~parsed.ok
         THEN Returned(SameList(bd), TRUE, TRUE)
         ELSE LET gs == parsed.value IN
              IF \E j \in 1..Len(gs) : GroupRaises(bd, gs[j])
              THEN Returned(SameList(bd), TRUE, TRUE)
              ELSE Returned(
                      SortByTurns(bd,
                          [j \in 1..Len(gs) |-> GroupEntry(bd, total, gs[j])]
                              \o MissedItems(bd, SeenIndices(bd, gs))),
                      FALSE, TRUE)

LabelWarning == "Priority consolidation failed - showing raw items"

\* as BreakdownAfter, with the consolidated list built in the input list
BreakdownAfterInPlace(bd, total, o) ==
    LET r == consolidate_priority_names(bd, total, o).returned IN
    [i \in 1..Len(r) |->
        [name |-> Deref(bd, r[i]).name, turns |-> Deref(bd, r[i]).turns,
         pct |-> Deref(bd, r[i]).pct]]

\* the list `breakdown` and its items once the call has returned: the call
\* reads breakdown[i]["name"] and breakdown[i]["turns"], builds
\* `consolidated` as a new list, appends to it (also items of the input,
\* as they are) and sorts it; no statement writes to `breakdown` or to a
\* key of one of its items
BreakdownAfter(bd, total, o) == bd

----------------------------------------------------------------------------
(* Strings.  A string handled character by character is a sequence of      *)
(* one-character strings.                                                  *)

LowerChars ==
    <<"a", "b", "c", "d", "e", "f", "g", "h", "i", "j", "k", "l", "m",
      "n", "o", "p", "q", "r", "s", "t", "u", "v", "w", "x", "y", "z">>

UpperChars ==
    <<"A", "B", "C", "D", "E", "F", "G", "H", "I", "J", "K", "L", "M",
      "N", "O", "P", "Q", "R", "S", "T", "U", "V", "W", "X", "Y", "Z">>

\* str.upper()
Upper(str) ==
    [i \in 1..Len(str) |->
        IF \E k \in 1..Len(LowerChars) : LowerChars[k] = str[i]
        THEN UpperChars[CHOOSE k \in 1..Len(LowerChars) : LowerChars[k] = str[i]]
        ELSE str[i]]

\* str.startswith(prefix)
StartsWith(str, prefix) ==
    Len(str) >= Len(prefix) /\ SubSeq(str, 1, Len(prefix)) = prefix

\* `sub in str`
Contains(str, sub) ==
    \E i \in 0..(Len(str) - Len(sub)) : SubSeq(str, i + 1, i + Len(sub)) = sub

RECURSIVE LStrip(_, _)
LStrip(str, cs) ==
    IF str # <<>> /\ Head(str) \in cs THEN LStrip(Tail(str), cs) ELSE str

RECURSIVE RStrip(_, _)
RStrip(str, cs) ==
    IF str # <<>> /\ str[Len(str)] \in cs
    THEN RStrip(SubSeq(str, 1, Len(str) - 1), cs) ELSE str

\* str.strip(chars)
StripChars(str, cs) == RStrip(LStrip(str, cs), cs)

Whitespace == {" ", "\t"}

\* str.strip()
Strip(str) == StripChars(str, Whitespace)

\* str.replace(pat, "")
RECURSIVE RemoveAll(_, _)
RemoveAll(str, pat) ==
    IF Len(str) < Len(pat) THEN str
    ELSE IF StartsWith(str, pat)
         THEN RemoveAll(SubSeq(str, Len(pat) + 1, Len(str)), pat)
         ELSE <<Head(str)>> \o RemoveAll(Tail(str), pat)

\* "\n".join(lines).strip().split("\n"), on a text kept as its lines: blank
\* lines at both ends go, the first line loses its leading and the last its
\* trailing white space
RECURSIVE DropBlankHead(_)
DropBlankHead(ls) ==
    IF ls # <<>> /\ Strip(Head(ls)) = <<>> THEN DropBlankHead(Tail(ls)) ELSE ls

RECURSIVE DropBlankTail(_)
DropBlankTail(ls) ==
    IF ls # <<>> /\ Strip(ls[Len(ls)]) = <<>>
    THEN DropBlankTail(SubSeq(ls, 1, Len(ls) - 1)) ELSE ls

StripText(ls) ==
    LET t == DropBlankTail(DropBlankHead(ls)) IN
    IF t = <<>> THEN <<>>
    ELSE IF Len(t) = 1 THEN <<Strip(t[1])>>
    ELSE <<LStrip(t[1], Whitespace)>> \o SubSeq(t, 2, Len(t) - 1)
            \o <<RStrip(t[Len(t)], Whitespace)>>

----------------------------------------------------------------------------
(* sessions.summarize_and_tag_chunk *)

\* as TagTable, with OFF listed before its longer variants
TagTableOffFirst ==
    <<<<"P", "0">>,
     <<"P", "1">>,
     <<"P", "2">>,
     <<"T", "O", "O", "L", "I", "N", "G">>,
     <<"M", "E", "T", "A">>,
     <<"F", "E", "A", "T", "U", "R", "E">>,
     <<"B", "U", "G", "F", "I", "X">>,
     <<"R", "E", "S", "E", "A", "R", "C", "H">>,
     <<"O", "F", "F">>,
     <<"O", "F", "F", "-", "P", "R", "I", "O", "R", "I", "T", "Y">>,
     <<"O", "F", "F", " ", "P", "R", "I", "O", "R", "I", "T", "Y">>,
     <<"O", "F", "F", "P", "R", "I", "O", "R", "I", "T", "Y">>,
     <<"O", "T", "H", "E", "R">>>>

\* the ordered table of tags the PRIORITY line is matched against
TagTable ==
    <<<<"P", "0">>,
     <<"P", "1">>,
     <<"P", "2">>,
     <<"T", "O", "O", "L", "I", "N", "G">>,
     <<"M", "E", "T", "A">>,
     <<"F", "E", "A", "T", "U", "R", "E">>,
     <<"B", "U", "G", "F", "I", "X">>,
     <<"R", "E", "S", "E", "A", "R", "C", "H">>,
     <<"O", "F", "F", "-", "P", "R", "I", "O", "R", "I", "T", "Y">>,
     <<"O", "F", "F", " ", "P", "R", "I", "O", "R", "I", "T", "Y">>,
     <<"O", "F", "F", "P", "R", "I", "O", "R", "I", "T", "Y">>,
     <<"O", "F", "F">>,
     <<"O", "T", "H", "E", "R">>>>

PriorityMarker == <<"P", "R", "I", "O", "R", "I", "T", "Y", ":">>
SummaryMarker == <<"S", "U", "M", "M", "A", "R", "Y", ":">>
Unclear == <<"U", "N", "C", "L", "E", "A", "R">>
OffPriority == <<"O", "F", "F", "-", "P", "R", "I", "O", "R", "I", "T", "Y">>
Off == <<"O", "F", "F">>

\* sum(len(m["text"]) for m in chunk if m["role"] == "user")
UserChars(ch) ==
    SumSeq([i \in 1..Len(ch) |->
               IF ch[i].role = "user" THEN Len(ch[i].text) ELSE 0])

\* as UserTurns, counting the turns of either role
UserTurnsAll(ch) == Len(ch)

\* sum(1 for m in chunk if m["role"] == "user")
UserTurns(ch) ==
    SumSeq([i \in 1..Len(ch) |-> IF ch[i].role = "user" THEN 1 ELSE 0])

\* the scan of the output lines: the last PRIORITY: line wins, the lines
\* after SUMMARY: that carry neither marker are the summary
RECURSIVE ScanLines(_, _)
ScanLines(st, ls) ==
    IF ls = <<>> THEN st
    ELSE LET line == Head(ls) IN
         ScanLines(
            IF StartsWith(line, PriorityMarker)
            THEN [st EXCEPT !.priority_line =
                                Strip(RemoveAll(line, PriorityMarker))]
            ELSE IF StartsWith(line, SummaryMarker)
            THEN [st EXCEPT !.in_summary = TRUE]
            ELSE IF st.in_summary
            THEN [st EXCEPT !.summary_lines = Append(@, line)]
            ELSE st,
            Tail(ls))

\* the indices of the table entries the upper-cased line starts with
TagMatches(priority_line) ==
    LET upper_line == Upper(priority_line) IN
    {k \in 1..Len(TagTable) : StartsWith(upper_line, TagTable[k])}

\* the entry at which the loop over the table breaks
FirstMatch(priority_line) ==
    LET matches == TagMatches(priority_line) IN
    CHOOSE k \in matches : \A j \in matches : k <= j

\* priority_level and priority_name after the loop over the table
MatchTag(priority_line) ==
    IF TagMatches(priority_line) = {}
    THEN [priority |-> Unclear, priority_name |-> priority_line]
    ELSE LET p == TagTable[FirstMatch(priority_line)] IN
         [priority |-> IF Contains(p, Off) THEN OffPriority ELSE p,
          priority_name |->
              StripChars(SubSeq(priority_line, Len(p) + 1, Len(priority_line)),
                         {":", " ", "-"})]

\* as ClassifyFailed, with an empty summary
ClassifyFailedNoSummary(ch, o) ==
    [priority |-> Unclear,
     priority_name |-> <<"(failed: ", o.error, ")">>,
     summary |-> <<>>,
     user_chars |-> UserChars(ch),
     user_turns |-> UserTurns(ch)]

\* as ClassifyFailed, with the counts of a chunk nothing was learnt about
ClassifyFailedNoCounts(ch, o) ==
    [priority |-> Unclear,
     priority_name |-> <<"(failed: ", o.error, ")">>,
     summary |-> <<<<"(summarization failed)">>>>,
     user_chars |-> 0,
     user_turns |-> 0]

\* the dict returned by the except branch
ClassifyFailed(ch, o) ==
    [priority |-> Unclear,
     priority_name |-> <<"(failed: ", o.error, ")">>,
     summary |-> <<<<"(summarization failed)">>>>,
     user_chars |-> UserChars(ch),
     user_turns |-> UserTurns(ch)]

\* result.stdout.strip().split("\n")
OutputLines(out) ==
    IF out.form = "lines" /\ StripText(out.lines) # <<>>
    THEN StripText(out.lines) ELSE <<<<>>>>

P0Line == <<"P", "R", "I", "O", "R", "I", "T", "Y", ":", " ", "P", "0", ":", " ", "b", "i", "l", "l", "i", "n", "g">>
ToolingLine == <<"P", "R", "I", "O", "R", "I", "T", "Y", ":", " ", "T", "O", "O", "L", "I", "N", "G", ":", " ", "c", "i">>

\* the PRIORITY: lines the oracle may print
PriorityLines ==
    {<<"P", "R", "I", "O", "R", "I", "T", "Y", ":", " ", "P", "0", ":", " ", "b", "i", "l", "l", "i", "n", "g">>,
     <<"P", "R", "I", "O", "R", "I", "T", "Y", ":", " ", "p", "1", " ", "-", " ", "a", "p", "i">>,
     <<"P", "R", "I", "O", "R", "I", "T", "Y", ":", " ", "T", "O", "O", "L", "I", "N", "G", ":", " ", "c", "i">>,
     <<"P", "R", "I", "O", "R", "I", "T", "Y", ":", " ", "O", "F", "F", "-", "P", "R", "I", "O", "R", "I", "T", "Y", ":", " ", "m", "u", "s", "i", "c">>,
     <<"P", "R", "I", "O", "R", "I", "T", "Y", ":", " ", "o", "f", "f", " ", "p", "r", "i", "o", "r", "i", "t", "y", ":", " ", "t", "v">>,
     <<"P", "R", "I", "O", "R", "I", "T", "Y", ":", " ", "O", "f", "f", "l", "i", "n", "e", " ", "w", "o", "r", "k">>,
     <<"P", "R", "I", "O", "R", "I", "T", "Y", ":", " ", "o", "f", "f", "p", "r", "i", "o", "r", "i", "t", "y", " ", "g", "a", "m", "e", "s">>,
     <<"P", "R", "I", "O", "R", "I", "T", "Y", ":", " ", "O", "F", "F", ":", " ", "n", "a", "p">>,
     <<"P", "R", "I", "O", "R", "I", "T", "Y", ":", " ", "O", "T", "H", "E", "R">>,
     <<"P", "R", "I", "O", "R", "I", "T", "Y", ":", " ", "U", "N", "C", "L", "E", "A", "R", ":", " ", "?">>,
     <<"P", "R", "I", "O", "R", "I", "T", "Y", ":", " ", "m", "a", "y", "b", "e", " ", "P", "0">>,
     <<"P", "R", "I", "O", "R", "I", "T", "Y", ":">>}

BulletLine == <<"-", " ", "d", "i", "d", " ", "x">>
NoiseLine == <<"E", "r", "r", "o", "r", ":", " ", "P", "0">>

\* a stdout kept as its lines
LinesOut(ls) == [form |-> "lines", lines |-> ls]

\* the well-formed replies, the replies without a SUMMARY block, and text
\* that carries no PRIORITY: line at all
Replies ==
    {LinesOut(<<l, SummaryMarker, BulletLine>>) : l \in PriorityLines}
        \cup {LinesOut(<<l>>) : l \in PriorityLines}

Unparseable == {LinesOut(<<NoiseLine>>), LinesOut(<<SummaryMarker, BulletLine>>)}

ClassifyOutcomes ==
    Raised \cup {Exited(rc, out) :
                   rc \in ReturnCodes,
                   out \in {EmptyOut} \cup Unparseable \cup Replies}

\* what the parsing of a reply gives: the tag, the label and the synopsis
ParseReply(out) ==
    LET st == ScanLines([priority_line |-> Unclear,
                         summary_lines |-> <<>>,
                         in_summary |-> FALSE],
                        OutputLines(out))
        m == MatchTag(st.priority_line)
    IN  [priority |-> m.priority,
         priority_name |-> m.priority_name,
         summary |-> StripText(st.summary_lines)]

summarize_and_tag_chunk(ch, o) ==
    IF o.kind = "raise" THEN ClassifyFailed(ch, o)
    ELSE LET r == ParseReply(o.stdout)
         IN  [priority |-> r.priority,
              priority_name |-> r.priority_name,
              summary |-> r.summary,
              user_chars |-> UserChars(ch),
              user_turns |-> UserTurns(ch)]

----------------------------------------------------------------------------
(* daily_report.consolidate_with_opus *)

\* `projects[:10]`
TopProjects == 10

\* the combined synopsis process_session gives a session without summaries:
\* the one-line text "(no content)"
NoContent == <<<<"(no content)">>>>

\* a stdout that is a rewritten synopsis
TextOut == LinesOut(<<BulletLine, BulletLine>>)

\* result.stdout.strip()
StrippedOut(out) == IF out.form = "lines" THEN StripText(out.lines) ELSE <<>>

\* an entry of the returned list: one of the input dicts, or a dict built by
\* the call
ProjRef(i) == [kind |-> "item", index |-> i]

SameProjects(ps) == [i \in 1..Len(ps) |-> ProjRef(i - 1)]

\* "\n\n".join(summaries).strip() is empty
JoinedBlank(summaries) ==
    \A i \in 1..Len(summaries) : StripText(summaries[i]) = <<>>

\* "\n\n".join(summaries) == "(no content)"
JoinedNoContent(summaries) == summaries = <<NoContent>>

\* as ProjectSkipped, with the "(no content)" test forgotten
ProjectSkippedBlankOnly(proj) == JoinedBlank(proj.summaries)

\* `if not raw_summaries.strip() or raw_summaries == "(no content)"`
ProjectSkipped(proj) ==
    JoinedBlank(proj.summaries) \/ JoinedNoContent(proj.summaries)

\* the entry appended for the project at index i (0-based), given the
\* outcome o of its subprocess call
ProjectEntry(ps, i, o) ==
    IF ProjectSkipped(ps[i + 1]) THEN ProjRef(i)
    ELSE IF o.kind = "raise" THEN ProjRef(i)
    ELSE [kind |-> "new",
          project |-> ps[i + 1].project,
          chars |-> ps[i + 1].chars,
          summaries |-> <<StrippedOut(o.stdout)>>]

Min(a, b) == IF a <= b THEN a ELSE b

\* the indices (0-based) of the projects the loop calls the oracle for
ProjectsCalled(ps) ==
    {i \in 0..(Min(Len(ps), TopProjects) - 1) : ~ProjectSkipped(ps[i + 1])}

\* failed_count
FailedCount(ps, outs) ==
    Cardinality({i \in ProjectsCalled(ps) : outs[i + 1].kind = "raise"})

ProjectWarning(n) == <<"Project summary consolidation failed for ", n, " project(s)">>

\* as consolidate_with_opus, with `consolidated.extend(projects[10:])`
\* forgotten
ConsolidateTopOnly(ps, outs) ==
    [i \in 1..Min(Len(ps), TopProjects) |-> ProjectEntry(ps, i - 1, outs[i])]

\* the list returned: the loop over projects[:10], then projects[10:]
consolidate_with_opus(ps, outs) ==
    [i \in 1..Len(ps) |->
        IF i <= TopProjects THEN ProjectEntry(ps, i - 1, outs[i])
        ELSE ProjRef(i - 1)]

----------------------------------------------------------------------------
(* sessions.extract_messages and daily_report.process_session.  A session  *)
(* file is a list of lines; a time stamp is a number of hours.             *)

\* the scaled default of chunk_conversation's max_chars
DefaultMaxChars == 3

\* main(): end = now, start = end - timedelta(hours=24)
Now == 48
WindowHours == 24
WindowEnd == Now
WindowStart == Now - WindowHours

\* `h for h in range(24)`
HoursPerDay == 24

\* datetime.hour
Hour(ts) == ts % HoursPerDay

\* chunk_hour = None
NoHour == -1

\* a line that holds a turn, a line that is not JSON, a line that is JSON
\* but not an object (a list, a number, null)
TurnLine(role, text, ts) ==
    [kind |-> "turn", role |-> role, text |-> text, timestamp |-> ts]
MalformedLine == [kind |-> "malformed"]
NonObjectLine == [kind |-> "nonobject"]

\* the session files on disk, by path
Paths == {"short", "long", "assistant", "stale", "broken", "missing"}

\* get_sessions' entry of a path, with the project named after its directory
Session(path) ==
    [path |-> path,
     project |-> CASE path \in {"short", "assistant"} -> "code/alpha"
                   [] path = "long" -> "code/beta"
                   [] OTHER -> "notes"]

\* what is at a path when its task opens it: a session with one user turn;
\* a session of two chunks with a line that is not JSON; a session whose
\* only turn in the window is the assistant's; a session without a turn in
\* the window; a session with a line that holds a JSON list; nothing, the
\* file having been removed after get_sessions listed it
FileAt(path) ==
    CASE path = "short" ->
           [exists |-> TRUE,
            lines |-> <<TurnLine("user", Text(2), Now - 18)>>]
      [] path = "long" ->
           [exists |-> TRUE,
            lines |-> <<TurnLine("user", Text(2), Now - 18), MalformedLine,
                        TurnLine("assistant", Text(1), Now - 18),
                        TurnLine("user", Text(4), Now - 17)>>]
      [] path = "assistant" ->
           [exists |-> TRUE,
            lines |-> <<TurnLine("user", Text(2), Now - WindowHours - 14),
                        TurnLine("assistant", Text(2), Now - 18)>>]
      [] path = "stale" ->
           [exists |-> TRUE,
            lines |-> <<TurnLine("user", Text(2), Now - WindowHours - 14),
                        TurnLine("user", Text(1), Now + 12)>>]
      [] path = "broken" ->
           [exists |-> TRUE,
            lines |-> <<TurnLine("user", Text(2), Now - 18), NonObjectLine>>]
      [] OTHER -> [exists |-> FALSE, lines |-> <<>>]

\* records that are valid JSON objects but hold no turn: a record whose
\* type is missing or neither user nor assistant; a record whose message is
\* missing, not an object or without text; a user record whose text starts
\* with the noise marker or has 10 characters or fewer after trimming
NoTypeLine == [kind |-> "notype"]
NoMessageLine == [kind |-> "nomessage"]
ShortUserLine == [kind |-> "noise"]

\* a record that would hold a turn, with its timestamp field missing, not
\* in ISO format, or a JSON number
UntimedLine(role, text, stamp) ==
    [kind |-> "untimed", role |-> role, text |-> text, stamp |-> stamp]

\* what one pass of the loop body does with a line: json.loads raising
\* JSONDecodeError skips the line; obj.get on a value that is not a dict
\* raises AttributeError, which no except clause of the function names, and
\* so does ts_str.replace on a number; a missing timestamp is skipped by
\* `if not ts_str`, fromisoformat raising ValueError is caught
RecordOutcome(l, wt) ==
    CASE l.kind = "malformed" -> "skip"
      [] l.kind = "nonobject" -> "raise"
      [] l.kind \in {"notype", "nomessage", "noise"} -> "skip"
      [] l.kind = "untimed" ->
           IF ~wt THEN "turn"
           ELSE IF l.stamp = "number" THEN "raise"
           ELSE "skip"
      [] OTHER -> "turn"

\* entry = {"role": msg_type, "text": text.strip()}, with the timestamp
\* when requested
TurnEntry(l, wt) ==
    IF wt THEN [role |-> l.role, text |-> l.text, timestamp |-> l.timestamp]
    ELSE [role |-> l.role, text |-> l.text]

\* the loop over the lines
RECURSIVE ExtractLines(_, _, _)
ExtractLines(acc, ls, wt) ==
    IF ls = <<>> THEN [kind |-> "ok", messages |-> acc]
    ELSE LET l == Head(ls)
             what == RecordOutcome(l, wt)
         IN  IF what = "raise"
             THEN [kind |-> "raise", error |-> "AttributeError"]
             ELSE IF what = "skip" THEN ExtractLines(acc, Tail(ls), wt)
             ELSE ExtractLines(Append(acc, TurnEntry(l, wt)), Tail(ls), wt)

\* the loop as process_session runs it, with_timestamps=True
ExtractLoop(acc, ls) == ExtractLines(acc, ls, TRUE)

\* a path that cannot be opened gives no messages
extract_messages(session_path) ==
    IF ~FileAt(session_path).exists THEN [kind |-> "ok", messages |-> <<>>]
    ELSE ExtractLoop(<<>>, FileAt(session_path).lines)

\* `[m for m in messages if start <= m["timestamp"] <= end]`
FilterWindow(msgs) ==
    SelectSeq(msgs, LAMBDA m : WindowStart <= m.timestamp
                                  /\ m.timestamp <= WindowEnd)

\* messages_plain
Plain(msgs) ==
    [i \in 1..Len(msgs) |-> [role |-> msgs[i].role, text |-> msgs[i].text]]

\* msg_idx when the loop reaches chunk k
MsgIdx(cs, k) == SumSeq([j \in 1..(k - 1) |-> Len(cs[j])])

\* chunk_timestamps of chunk k
ChunkTimestamps(filtered, cs, k) ==
    LET sub == SubSeq(filtered, MsgIdx(cs, k) + 1,
                      Min(MsgIdx(cs, k) + Len(cs[k]), Len(filtered)))
        users == SelectSeq(sub, LAMBDA m : m.role = "user")
    IN  [i \in 1..Len(users) |-> users[i].timestamp]

\* chunk_hour: the hour of the median user time stamp, or None
ChunkHour(filtered, cs, k) ==
    LET ts == ChunkTimestamps(filtered, cs, k) IN
    IF ts # <<>> THEN Hour(ts[(Len(ts) \div 2) + 1]) ELSE NoHour

\* result = summarize_and_tag_chunk(...); result["hour"] = chunk_hour
ChunkResult(filtered, cs, k, o) ==
    LET r == summarize_and_tag_chunk(cs[k], o) IN
    [priority |-> r.priority, priority_name |-> r.priority_name,
     summary |-> r.summary, user_chars |-> r.user_chars,
     user_turns |-> r.user_turns, hour |-> ChunkHour(filtered, cs, k)]

\* "\n".join(all_summaries) if all_summaries else "(no content)"
Combined(rs) ==
    LET all_summaries == SelectSeq([k \in 1..Len(rs) |-> rs[k].summary],
                                   LAMBDA s : s # <<>>)
    IN  IF all_summaries # <<>> THEN Flatten(all_summaries) ELSE NoContent

\* the chunks of the extracted turns that lie inside the window
ExtractedChunks(ex) ==
    IF ex.kind = "raise" THEN <<>>
    ELSE chunk_conversation(Plain(FilterWindow(ex.messages)), DefaultMaxChars)

\* the chunks of a session's turns inside the window
SessionChunks(session) == ExtractedChunks(extract_messages(session.path))

NoResult == [kind |-> "none"]

\* what the task of one file does, given the outcome of the subprocess call
\* of each of its chunks: it raises, returns None or returns a result
ProcessExtracted(ex, project, outs) ==
    IF ex.kind = "raise" THEN ex
    ELSE LET filtered == FilterWindow(ex.messages) IN
         IF filtered = <<>> THEN NoResult
         ELSE LET cs == chunk_conversation(Plain(filtered), DefaultMaxChars)
                  rs == [k \in 1..Len(cs) |->
                            ChunkResult(filtered, cs, k, outs[k])]
              IN  [kind |-> "result",
                   value |->
                      [project |-> project,
                       chunks |-> rs,
                       summary |-> Combined(rs),
                       total_user_chars |->
                           SumSeq([k \in 1..Len(rs) |-> rs[k].user_chars]),
                       total_user_turns |->
                           SumSeq([k \in 1..Len(rs) |-> rs[k].user_turns])]]

process_session(session, outs) ==
    ProcessExtracted(extract_messages(session.path), session.project, outs)

----------------------------------------------------------------------------
(* daily_report.generate_report: the aggregation of the collected results  *)

\* `for r in results: for chunk in r.get("chunks", [])`
AllChunks(rs) == Flatten([i \in 1..Len(rs) |-> rs[i].chunks])

\* f"{p}: {chunk.get('priority_name', 'unknown')}"
LabelName(c) == c.priority \o <<":", " ">> \o c.priority_name

\* the accumulators before the loop
EmptyTotals ==
    [priority_chars |-> <<>>, priority_turns |-> <<>>,
     priority_chunks |-> <<>>, priority_name_turns |-> <<>>,
     total_chars |-> 0, total_turns |-> 0,
     hourly_priority_turns |-> [h \in 0..(HoursPerDay - 1) |-> <<>>]]

\* the body of the loop for one chunk
AggStep(agg, c) ==
    [priority_chars |-> DictAdd(agg.priority_chars, c.priority, c.user_chars),
     priority_turns |-> DictAdd(agg.priority_turns, c.priority, c.user_turns),
     priority_chunks |-> DictAdd(agg.priority_chunks, c.priority, 1),
     priority_name_turns |->
         DictAdd(agg.priority_name_turns, LabelName(c), c.user_turns),
     total_chars |-> agg.total_chars + c.user_chars,
     total_turns |-> agg.total_turns + c.user_turns,
     hourly_priority_turns |->
         IF c.hour # NoHour
         THEN [agg.hourly_priority_turns EXCEPT
                  ![c.hour] = DictAdd(@, c.priority, c.user_turns)]
         ELSE agg.hourly_priority_turns]

RECURSIVE AggLoop(_, _)
AggLoop(agg, cs) ==
    IF cs = <<>> THEN agg ELSE AggLoop(AggStep(agg, Head(cs)), Tail(cs))

Aggregate(rs) == AggLoop(EmptyTotals, AllChunks(rs))

\* priority_pct
PriorityPct(agg) ==
    [i \in 1..Len(agg.priority_turns) |->
        [key |-> agg.priority_turns[i].key,
         val |-> Pct(agg.priority_turns[i].val, agg.total_turns)]]

\* priority_name_breakdown before consolidation
NameBreakdown(agg) ==
    StableSortDesc(
        [i \in 1..Len(agg.priority_name_turns) |->
            [name |-> agg.priority_name_turns[i].key,
             turns |-> agg.priority_name_turns[i].val,
             pct |-> Pct(agg.priority_name_turns[i].val, agg.total_turns)]],
        LAMBDA x : x.turns)

\* by_project after the result r
ByProjectStep(d, r) ==
    IF r.project \in DictKeys(d)
    THEN [i \in 1..Len(d) |->
             IF d[i].key = r.project
             THEN [key |-> d[i].key,
                   val |-> [summaries |-> Append(d[i].val.summaries, r.summary),
                            chars |-> d[i].val.chars + r.total_user_chars]]
             ELSE d[i]]
    ELSE Append(d, [key |-> r.project,
                    val |-> [summaries |-> <<r.summary>>,
                             chars |-> r.total_user_chars]])

RECURSIVE ByProject(_, _)
ByProject(d, rs) ==
    IF rs = <<>> THEN d ELSE ByProject(ByProjectStep(d, Head(rs)), Tail(rs))

\* projects before consolidation
ProjectsSorted(rs) ==
    LET d == ByProject(<<>>, rs) IN
    StableSortDesc(
        [i \in 1..Len(d) |->
            [project |-> d[i].key, chars |-> d[i].val.chars,
             summaries |-> d[i].val.summaries]],
        LAMBDA x : x.chars)

\* as HourlyBreakdown, keeping only the hours with more than one turn
HourlyBreakdownBusy(agg) ==
    SelectSeq([h \in 1..HoursPerDay |->
                  [hour |-> h - 1,
                   priorities |-> agg.hourly_priority_turns[h - 1]]],
              LAMBDA e : DictSum(e.priorities) > 1)

\* hourly_breakdown
HourlyBreakdown(agg) ==
    SelectSeq([h \in 1..HoursPerDay |->
                  [hour |-> h - 1,
                   priorities |-> agg.hourly_priority_turns[h - 1]]],
              LAMBDA e : DictSum(e.priorities) > 0)

\* the dicts of a list consolidate_with_opus returned
ProjDeref(ps, e) ==
    IF e.kind = "item" THEN ps[e.index + 1]
    ELSE [project |-> e.project, chars |-> e.chars, summaries |-> e.summaries]

\* the dict generate_report returns, given the outcome of the label
\* consolidation call and of each project consolidation call
ReportDict(rs, o, outs) ==
    LET agg == Aggregate(rs)
        raw == NameBreakdown(agg)
        names == consolidate_priority_names(raw, agg.total_turns, o).returned
        ps == ProjectsSorted(rs)
        cps == consolidate_with_opus(ps, outs)
    IN  [total_sessions_with_activity |-> Len(rs),
         by_user_turns |-> agg.priority_turns,
         by_user_chars |-> agg.priority_chars,
         by_chunk_count |-> agg.priority_chunks,
         percentage_of_effort |-> PriorityPct(agg),
         by_priority_name |->
             [i \in 1..Len(names) |-> Deref(raw, names[i])],
         by_priority_name_raw |-> BreakdownAfter(raw, agg.total_turns, o),
         total_user_turns |-> agg.total_turns,
         total_user_chars |-> agg.total_chars,
         hourly_breakdown |-> HourlyBreakdown(agg),
         projects |-> [i \in 1..Len(cps) |-> ProjDeref(ps, cps[i])]]

\* the warnings the two consolidation passes append
ReportWarnings(rs, o, outs) ==
    LET agg == Aggregate(rs)
        lab == consolidate_priority_names(NameBreakdown(agg),
                                          agg.total_turns, o)
        failed == FailedCount(ProjectsSorted(rs), outs)
    IN  (IF lab.warned THEN <<LabelWarning>> ELSE <<>>)
            \o (IF failed > 0 THEN <<ProjectWarning(failed)>> ELSE <<>>)

----------------------------------------------------------------------------
(* Specification of the Chunker: any turn sequence, any budget *)

IdleChunk == messages = <<>> /\ max_chars = 0 /\ chunks = <<>>

IdleLabels ==
    breakdown = <<>> /\ total_turns = 0 /\ groups = <<>> /\ consolidated = <<>>

IdleCalls == oracle = NoCall /\ warnings = <<>> /\ oracle_calls = 0

IdleClassify == chunk = <<>> /\ chunk_result = NoCall

IdleProjects ==
    projects = <<>> /\ project_oracle = <<>> /\ consolidated_projects = <<>>

IdleReport ==
    /\ sessions = <<>> /\ task_state = <<>> /\ task_outcome = <<>>
    /\ results = <<>> /\ completed = 0 /\ report = NoCall

IdleWeekly == reports = <<>> /\ weekly = NoCall

IdleSave == daily_files = <<>> /\ timeseries = <<>> /\ saves = 0

IdleExtract ==
    /\ file_lines = <<>> /\ with_timestamps = TRUE
    /\ extracted = NoCall /\ session_result = NoCall

IdleScan == log_files = <<>> /\ scanned = NoCall

InitChunk ==
    /\ pc = "chunk_input"
    /\ messages \in SeqsUpTo(Turns, MaxTurns)
    /\ max_chars \in 1..MaxBudget
    /\ chunks = <<>>
    /\ IdleLabels /\ IdleCalls /\ IdleClassify /\ IdleProjects /\ IdleReport
    /\ IdleWeekly /\ IdleSave
    /\ IdleExtract /\ IdleScan

Chunk ==
    /\ pc = "chunk_input"
    /\ chunks' = chunk_conversation(messages, max_chars)
    /\ pc' = "chunked"
    /\ UNCHANGED <<messages, max_chars, labelVars, callVars, classifyVars,
                   projectVars,
                   reportVars,
                   weeklyVars, saveVars,
                   extractVars, scanVars>>

NextChunk == Chunk

SpecChunk == InitChunk /\ [][NextChunk]_vars

----------------------------------------------------------------------------
(* Specification of the label consolidation: any breakdown generate_report *)
(* can build, any outcome of the oracle call.  The oracle writes its       *)
(* grouping group by group, index by index; any integer may be written.    *)

Breakdowns == {MkBreakdown(ts) : ts \in UNION {TurnSeqs(n) : n \in 0..NumItems}}

\* the indices a response may hold: the first, second and last index of the
\* list, the negative indices Python resolves to the first and the last item,
\* and one index beyond each end
IndexValues(bd) ==
    {-(Len(bd) + 1), -Len(bd), -1, 0, 1, Len(bd) - 1, Len(bd)}

TotalRefs(gs) == SumSeq([j \in 1..Len(gs) |-> Len(gs[j].items)])

\* the outcomes of the one subprocess call, given what the oracle has written
LabelOutcomes(gs) ==
    {Exited(rc, JsonOut(f, gs)) : rc \in ReturnCodes, f \in BOOLEAN}
        \cup (IF gs # <<>> THEN {}
              ELSE Raised \cup
                   {Exited(rc, out) :
                       rc \in ReturnCodes,
                       out \in {EmptyOut, GarbageOut, BadShapeOut}})

InitLabels ==
    /\ pc = "labels_input"
    /\ breakdown \in Breakdowns
    /\ total_turns = SumSeq([i \in 1..Len(breakdown) |-> breakdown[i].turns])
    /\ groups = <<>>
    /\ consolidated = <<>>
    /\ IdleChunk /\ IdleCalls /\ IdleClassify /\ IdleProjects /\ IdleReport
    /\ IdleWeekly /\ IdleSave
    /\ IdleExtract /\ IdleScan

OracleNewGroup ==
    /\ pc = "labels_input"
    /\ ~SkipConsolidation(breakdown)
    /\ Len(groups) < MaxGroups
    /\ groups' = Append(groups,
                       [name |-> ItemNames[Len(groups) + 1], items |-> <<>>])
    /\ UNCHANGED <<pc, breakdown, total_turns, consolidated, chunkVars, callVars,
                   classifyVars, projectVars,
                   reportVars,
                   weeklyVars, saveVars,
                   extractVars, scanVars>>

OracleAddIndex ==
    /\ pc = "labels_input"
    /\ groups # <<>>
    /\ TotalRefs(groups) < MaxRefs
    /\ \E i \in IndexValues(breakdown) :
          groups' = [groups EXCEPT ![Len(groups)].items = Append(@, i)]
    /\ UNCHANGED <<pc, breakdown, total_turns, consolidated, chunkVars, callVars,
                   classifyVars, projectVars,
                   reportVars,
                   weeklyVars, saveVars,
                   extractVars, scanVars>>

ConsolidateNames ==
    /\ pc = "labels_input"
    /\ \E o \in (IF SkipConsolidation(breakdown) THEN {NoCall}
                  ELSE LabelOutcomes(groups)) :
          LET r == consolidate_priority_names(breakdown, total_turns, o) IN
          /\ consolidated' = r.returned
          /\ warnings' = IF r.warned THEN Append(warnings, LabelWarning)
                         ELSE warnings
          /\ oracle_calls' = IF r.called THEN oracle_calls + 1 ELSE oracle_calls
          /\ oracle' = IF r.called THEN o ELSE NoCall
          /\ breakdown' = BreakdownAfter(breakdown, total_turns, o)
    /\ pc' = "labels_done"
    /\ UNCHANGED <<total_turns, groups, chunkVars, classifyVars,
                   projectVars,
                   reportVars,
                   weeklyVars, saveVars,
                   extractVars, scanVars>>

NextLabels == OracleNewGroup \/ OracleAddIndex \/ ConsolidateNames

SpecLabels == InitLabels /\ [][NextLabels]_vars

----------------------------------------------------------------------------
(* Specification of the classification call: any chunk, any outcome of the *)
(* subprocess                                                              *)

\* a chunk is a non-empty list of turns
ChunkInputs == SeqsUpTo(Turns, MaxChunkTurns) \ {<<>>}

InitClassify ==
    /\ pc = "classify_input"
    /\ chunk \in ChunkInputs
    /\ chunk_result = NoCall
    /\ IdleChunk /\ IdleLabels /\ IdleCalls /\ IdleProjects /\ IdleReport
    /\ IdleWeekly /\ IdleSave
    /\ IdleExtract /\ IdleScan

Classify ==
    /\ pc = "classify_input"
    /\ \E o \in ClassifyOutcomes :
          /\ chunk_result' = summarize_and_tag_chunk(chunk, o)
          /\ oracle' = o
    /\ oracle_calls' = oracle_calls + 1
    /\ pc' = "classified"
    /\ UNCHANGED <<chunk, warnings, chunkVars, labelVars, projectVars,
                   reportVars,
                   weeklyVars, saveVars,
                   extractVars, scanVars>>

NextClassify == Classify

SpecClassify == InitClassify /\ [][NextClassify]_vars

----------------------------------------------------------------------------
(* Specification of the project-synopsis consolidation: any project list   *)
(* generate_report can build, any outcome of each subprocess call          *)

ProjectNames == <<"code/alpha", "code/beta", "notes", "code/gamma", "dotfiles">>

\* the synopsis lists of a project: none, one session without content, one
\* session with a synopsis, two sessions without content
SummaryLists ==
    {<<>>, <<NoContent>>, <<<<BulletLine>>>>, <<NoContent, NoContent>>}

\* projects sorted by non-increasing chars, as generate_report sorts them
ProjectLists ==
    UNION {{[i \in 1..n |->
               [project |-> ProjectNames[i], chars |-> 100 * (n - i),
                summaries |-> ss[i]]] : ss \in [1..n -> SummaryLists]} :
           n \in 0..MaxProjects}

ProjectOutcomes ==
    Raised \cup {Exited(rc, out) : rc \in ReturnCodes, out \in {EmptyOut, TextOut}}

\* a day with more projects than the call consolidates: one project more
\* than projects[:10], each with one synopsis, except for the last project
\* of the slice and the first one beyond it, which have any synopsis list
LongProjectNames ==
    <<"code/alpha", "code/beta", "notes", "code/gamma", "dotfiles",
      "code/delta", "code/eps", "blog", "infra", "papers", "taxes">>

LongProjectLists ==
    {[i \in 1..(TopProjects + 1) |->
         [project |-> LongProjectNames[i],
          chars |-> 100 * (TopProjects + 1 - i),
          summaries |-> IF i = TopProjects THEN last
                        ELSE IF i = TopProjects + 1 THEN beyond
                        ELSE <<<<BulletLine>>>>]] :
        last \in SummaryLists, beyond \in SummaryLists}

\* the outcomes of a project's call: every outcome for the short lists, a
\* timeout or a rewritten synopsis for the long ones
OutcomesOfCall(ps) ==
    IF Len(ps) > TopProjects
    THEN {[kind |-> "raise", error |-> "TimeoutExpired"], Exited(0, TextOut)}
    ELSE ProjectOutcomes

InitProjects ==
    /\ pc = "projects_input"
    /\ projects \in ProjectLists \cup LongProjectLists
    /\ project_oracle = <<>>
    /\ consolidated_projects = <<>>
    /\ IdleChunk /\ IdleLabels /\ IdleCalls /\ IdleClassify /\ IdleReport
    /\ IdleWeekly /\ IdleSave
    /\ IdleExtract /\ IdleScan

ConsolidateProjects ==
    /\ pc = "projects_input"
    /\ \E f \in [ProjectsCalled(projects) -> OutcomesOfCall(projects)] :
          LET outs == [i \in 1..Len(projects) |->
                          IF (i - 1) \in ProjectsCalled(projects)
                          THEN f[i - 1] ELSE NoCall]
          IN
          /\ project_oracle' = outs
          /\ consolidated_projects' = consolidate_with_opus(projects, outs)
          /\ warnings' =
                IF FailedCount(projects, outs) > 0
                THEN Append(warnings, ProjectWarning(FailedCount(projects, outs)))
                ELSE warnings
    /\ oracle_calls' = oracle_calls + Cardinality(ProjectsCalled(projects))
    /\ pc' = "projects_done"
    /\ UNCHANGED <<projects, oracle, chunkVars, labelVars, classifyVars,
                   reportVars,
                   weeklyVars, saveVars,
                   extractVars, scanVars>>

NextProjects == ConsolidateProjects

SpecProjects == InitProjects /\ [][NextProjects]_vars

----------------------------------------------------------------------------
(* Specification of generate_report: the files are submitted to a pool of  *)
(* workers, each task runs process_session, the caller takes the futures   *)
(* as they complete and then builds the report                             *)

MaxFiles == 2

\* ThreadPoolExecutor(max_workers=5)
MaxWorkers == 5

\* the outcomes of a classification call: a timeout, a reply with a
\* synopsis, a reply without
PipelineOutcomes ==
    {[kind |-> "raise", error |-> "TimeoutExpired"],
     Exited(0, LinesOut(<<P0Line, SummaryMarker, BulletLine>>)),
     Exited(0, LinesOut(<<ToolingLine>>))}

\* what the task of each path can do: process_session under every outcome
\* of the subprocess call of each chunk
TaskOutcomes ==
    [p \in Paths |->
        {process_session(Session(p), outs) :
            outs \in [1..Len(SessionChunks(Session(p))) -> PipelineOutcomes]}]

ReportLabelOutcomes ==
    {[kind |-> "raise", error |-> "TimeoutExpired"], Exited(0, EmptyOut)}

ReportProjectOutcomes ==
    {[kind |-> "raise", error |-> "TimeoutExpired"], Exited(0, TextOut)}

Running == {i \in 1..Len(sessions) : task_state[i] = "running"}

InitReport ==
    /\ pc = "scanning"
    /\ sessions \in SeqsUpTo({Session(p) : p \in Paths}, MaxFiles) \ {<<>>}
    /\ task_state = [i \in 1..Len(sessions) |-> "pending"]
    /\ task_outcome = [i \in 1..Len(sessions) |-> NoCall]
    /\ results = <<>>
    /\ completed = 0
    /\ report = NoCall
    /\ IdleChunk /\ IdleLabels /\ IdleCalls /\ IdleClassify /\ IdleProjects
    /\ IdleWeekly /\ IdleSave
    /\ IdleExtract /\ IdleScan

\* a free worker takes the next task of the queue
StartTask(i) ==
    /\ pc = "scanning"
    /\ task_state[i] = "pending"
    /\ \A j \in 1..(i - 1) : task_state[j] # "pending"
    /\ Cardinality(Running) < MaxWorkers
    /\ task_state' = [task_state EXCEPT ![i] = "running"]
    /\ UNCHANGED <<pc, sessions, task_outcome, results, completed, report,
                   chunkVars, labelVars, callVars, classifyVars, projectVars,
                   weeklyVars, saveVars,
                   extractVars, scanVars>>

\* process_session returns or raises; the future is done
FinishTask(i) ==
    /\ pc = "scanning"
    /\ task_state[i] = "running"
    /\ \E r \in TaskOutcomes[sessions[i].path] :
          task_outcome' = [task_outcome EXCEPT ![i] = r]
    /\ task_state' = [task_state EXCEPT ![i] = "done"]
    /\ oracle_calls' = oracle_calls + Len(SessionChunks(sessions[i]))
    /\ UNCHANGED <<pc, sessions, results, completed, report, oracle, warnings,
                   chunkVars, labelVars, classifyVars, projectVars,
                   weeklyVars, saveVars,
                   extractVars, scanVars>>

\* as Collect, counting only the futures that returned a result
CollectUncounted(i) ==
    /\ pc = "scanning"
    /\ task_state[i] = "done"
    /\ task_state' = [task_state EXCEPT ![i] = "collected"]
    /\ completed' = IF task_outcome[i].kind = "result" THEN completed + 1
                    ELSE completed
    /\ IF task_outcome[i].kind = "raise"
       THEN pc' = "raised" /\ UNCHANGED results
       ELSE /\ pc' = pc
            /\ results' = IF task_outcome[i].kind = "result"
                          THEN Append(results, task_outcome[i].value)
                          ELSE results
    /\ UNCHANGED <<sessions, task_outcome, report, chunkVars, labelVars,
                   callVars, classifyVars, projectVars,
                   weeklyVars, saveVars,
                   extractVars, scanVars>>

\* one turn of `for future in as_completed(futures)`: future.result()
\* returns the task's value or raises the task's exception, which nothing
\* in generate_report or main catches
Collect(i) ==
    /\ pc = "scanning"
    /\ task_state[i] = "done"
    /\ task_state' = [task_state EXCEPT ![i] = "collected"]
    /\ completed' = completed + 1
    /\ IF task_outcome[i].kind = "raise"
       THEN pc' = "raised" /\ UNCHANGED results
       ELSE /\ pc' = pc
            /\ results' = IF task_outcome[i].kind = "result"
                          THEN Append(results, task_outcome[i].value)
                          ELSE results
    /\ UNCHANGED <<sessions, task_outcome, report, chunkVars, labelVars,
                   callVars, classifyVars, projectVars,
                   weeklyVars, saveVars,
                   extractVars, scanVars>>

\* the rest of generate_report, after the pool: aggregation, the two
\* consolidation passes, the dict returned
Report ==
    /\ pc = "scanning"
    /\ completed = Len(sessions)
    /\ LET raw == NameBreakdown(Aggregate(results))
           ps == ProjectsSorted(results)
       IN  \E o \in (IF SkipConsolidation(raw) THEN {NoCall}
                      ELSE ReportLabelOutcomes),
              outs \in [1..Len(ps) -> ReportProjectOutcomes \cup {NoCall}] :
              /\ \A i \in 1..Len(ps) :
                    outs[i] = NoCall <=> (i - 1) \notin ProjectsCalled(ps)
              /\ report' = ReportDict(results, o, outs)
              /\ oracle' = o
              /\ project_oracle' = outs
              /\ warnings' = warnings \o ReportWarnings(results, o, outs)
              /\ oracle_calls' =
                    oracle_calls + Cardinality(ProjectsCalled(ps))
                        + (IF SkipConsolidation(raw) THEN 0 ELSE 1)
    /\ pc' = "reported"
    /\ UNCHANGED <<sessions, task_state, task_outcome, results, completed,
                   projects, consolidated_projects, chunkVars, labelVars,
                   classifyVars,
                   weeklyVars, saveVars,
                   extractVars, scanVars>>

NextReport ==
    \/ \E i \in 1..Len(sessions) : StartTask(i)
    \/ \E i \in 1..Len(sessions) : FinishTask(i)
    \/ \E i \in 1..Len(sessions) : Collect(i)
    \/ Report

SpecReport == InitReport /\ [][NextReport]_vars

----------------------------------------------------------------------------
(* Specification of generate_report under fair scheduling, over batches    *)
(* larger than the pool: the worker threads run, every subprocess call     *)
(* returns or hits its timeout, the caller's loop over as_completed runs   *)

\* the files that wait in the queue while the pool is full
MaxQueued == 1

\* a batch that fills the pool: the first and the last file hold a user
\* turn, whose classification call may time out; the files between hold no
\* turn in the window
PoolBatches ==
    {[i \in 1..n |-> Session(IF i \in {1, n} THEN "short" ELSE "stale")] :
        n \in (MaxWorkers + 1)..(MaxWorkers + MaxQueued)}

InitPool ==
    /\ pc = "scanning"
    /\ sessions \in PoolBatches \cup {<<Session(p)>> : p \in Paths}
    /\ task_state = [i \in 1..Len(sessions) |-> "pending"]
    /\ task_outcome = [i \in 1..Len(sessions) |-> NoCall]
    /\ results = <<>>
    /\ completed = 0
    /\ report = NoCall
    /\ IdleChunk /\ IdleLabels /\ IdleCalls /\ IdleClassify /\ IdleProjects
    /\ IdleWeekly /\ IdleSave
    /\ IdleExtract /\ IdleScan

\* the worker threads run and the caller's loop over as_completed runs:
\* weak fairness of dispatch and of collection.  Every subprocess call
\* has a timeout (120 s for a classification, 600 s for a consolidation),
\* so no task stays running for ever and the caller does not stay for ever
\* at the end of the loop
FairScheduling ==
    /\ WF_vars(\E i \in 1..Len(sessions) : StartTask(i))
    /\ WF_vars(\E i \in 1..Len(sessions) : Collect(i))
    /\ []<>(Running = {})
    /\ []<>~(pc = "scanning" /\ completed = Len(sessions))

SpecPool == InitPool /\ [][NextReport]_vars /\ FairScheduling

----------------------------------------------------------------------------
(* weekly_summary.aggregate_reports: the daily reports of a period summed  *)
(* into one weekly report                                                  *)

MaxDays == 2
MaxDayTurns == 2

\* the keys of a day's by_user_turns, in the order generate_report met them
DayKeys == {<<>>, <<"P0">>, <<"P0", "P1">>, <<"TOOLING", "P0">>}

DayTurnDicts ==
    UNION {{[i \in 1..Len(ks) |-> [key |-> ks[i], val |-> f[i]]] :
               f \in [1..Len(ks) -> 1..MaxDayTurns]} : ks \in DayKeys}

\* a daily report file as load_daily_reports returns it.  A day without
\* sessions is saved as {"error": ...} and has no priority_breakdown; a
\* day's total_user_turns is a field of its own, which need not equal the
\* sum of its by_user_turns.  The fields other than the turn counts are
\* absent from the days of the model (every one is read with .get)
ErrorReport == [has_breakdown |-> FALSE]

DayReport(turns, total) ==
    [has_breakdown |-> TRUE, by_user_turns |-> turns,
     total_user_turns |-> total]

DailyReports ==
    {ErrorReport} \cup
    {DayReport(d, DictSum(d) + extra) : d \in DayTurnDicts, extra \in {0, 1}}

\* breakdown.get("by_user_turns", {}) of r.get("priority_breakdown", {})
DayTurns(r) == IF r.has_breakdown THEN r.by_user_turns ELSE <<>>

\* breakdown.get("total_user_turns", 0)
DayTotal(r) == IF r.has_breakdown THEN r.total_user_turns ELSE 0

\* for p, v in turns.items(): total_turns[p] = total_turns.get(p, 0) + v
RECURSIVE AddItems(_, _)
AddItems(total, items) ==
    IF items = <<>> THEN total
    ELSE AddItems(DictAdd(total, Head(items).key, Head(items).val),
                  Tail(items))

\* the loop over the reports: the category totals
RECURSIVE WeeklyTurns(_)
WeeklyTurns(rs) ==
    IF rs = <<>> THEN <<>>
    ELSE AddItems(WeeklyTurns(SubSeq(rs, 1, Len(rs) - 1)),
                  DayTurns(rs[Len(rs)]))

\* as GrandTotalTurns, summing the category totals instead of the days'
\* own totals
GrandTotalOfCategories(rs) == DictSum(WeeklyTurns(rs))

\* grand_total_turns += breakdown.get("total_user_turns", 0)
GrandTotalTurns(rs) == SumSeq([i \in 1..Len(rs) |-> DayTotal(rs[i])])

aggregate_reports(rs) ==
    IF rs = <<>> THEN [error |-> "No daily reports found"]
    ELSE LET turns == WeeklyTurns(rs)
             grand == GrandTotalTurns(rs)
         IN  [period_start |-> 1,
              period_end |-> Len(rs),
              days_covered |-> Len(rs),
              by_user_turns |-> turns,
              by_user_chars |-> <<>>,
              by_chunk_count |-> <<>>,
              percentage_of_effort |->
                  [i \in 1..Len(turns) |->
                      [key |-> turns[i].key,
                       val |-> Pct(turns[i].val, grand)]],
              by_priority_name |-> <<>>,
              total_user_turns |-> grand,
              total_user_chars |-> 0,
              daily_trend |->
                  [i \in 1..Len(rs) |->
                      [date |-> i, pct |-> <<>>,
                       total_turns |-> DayTotal(rs[i]), total_chars |-> 0]],
              top_projects |-> <<>>]

InitWeekly ==
    /\ pc = "weekly_input"
    /\ reports \in SeqsUpTo(DailyReports, MaxDays)
    /\ weekly = NoCall
    /\ IdleChunk /\ IdleLabels /\ IdleCalls /\ IdleClassify /\ IdleProjects
    /\ IdleReport /\ IdleSave
    /\ IdleExtract /\ IdleScan

AggregateReports ==
    /\ pc = "weekly_input"
    /\ weekly' = aggregate_reports(reports)
    /\ pc' = "aggregated"
    /\ UNCHANGED <<reports, chunkVars, labelVars, callVars, classifyVars,
                   projectVars, reportVars, saveVars,
                   extractVars, scanVars>>

NextWeekly == AggregateReports

SpecWeekly == InitWeekly /\ [][NextWeekly]_vars

----------------------------------------------------------------------------
(* daily_report.save_report: the report written to <type>/<date>.json and  *)
(* its hourly breakdown appended to hourly/timeseries.jsonl                *)

MaxSaves == 2
MaxDates == 2

\* date.strftime("%Y-%m-%d") of the dates a report is saved under
Dates == 1..MaxDates

\* the hours of day that hold activity in the reports of the model
SaveHours == {9, 14}

HourPriorities ==
    {<<[key |-> "P0", val |-> 1]>>,
     <<[key |-> "P0", val |-> 1], [key |-> "TOOLING", val |-> 2]>>}

\* the hourly_breakdown lists generate_report builds: at most one entry per
\* hour of day, by increasing hour, each with a positive sum
HourlyLists ==
    {hb \in SeqsUpTo([hour : SaveHours, priorities : HourPriorities],
                     Cardinality(SaveHours)) :
        \A i \in 1..(Len(hb) - 1) : hb[i].hour < hb[i + 1].hour}

\* the reports main hands to save_report: a report with its hourly
\* breakdown, or the {"error": ...} dict without one
SavedReports ==
    {[has_hourly |-> FALSE]} \cup
    {[has_hourly |-> TRUE, hourly_breakdown |-> hb] : hb \in HourlyLists}

\* report.get("hourly_breakdown", [])
HourlyOf(r) == IF r.has_hourly THEN r.hourly_breakdown ELSE <<>>

\* the rows written for a report: {"date": date_str, "hour": entry["hour"],
\* **entry["priorities"]}
HourlyRows(r, date) ==
    [i \in 1..Len(HourlyOf(r)) |->
        [date |-> date, hour |-> HourlyOf(r)[i].hour,
         priorities |-> HourlyOf(r)[i].priorities]]

InitSave ==
    /\ pc = "saving"
    /\ daily_files = <<>>
    /\ timeseries = <<>>
    /\ saves = 0
    /\ IdleChunk /\ IdleLabels /\ IdleCalls /\ IdleClassify /\ IdleProjects
    /\ IdleReport /\ IdleWeekly
    /\ IdleExtract /\ IdleScan

\* save_report(report, "daily", date): open(filepath, "w") replaces the
\* file of the date, open(hourly_file, "a") appends the rows
SaveReport ==
    /\ pc = "saving"
    /\ saves < MaxSaves
    /\ \E r \in SavedReports, date \in Dates :
          /\ daily_files' = DictAssign(daily_files, date, r)
          /\ timeseries' = timeseries \o HourlyRows(r, date)
    /\ saves' = saves + 1
    /\ UNCHANGED <<pc, chunkVars, labelVars, callVars, classifyVars,
                   projectVars, reportVars, weeklyVars,
                   extractVars, scanVars>>

NextSave == SaveReport

SpecSave == InitSave /\ [][NextSave]_vars

----------------------------------------------------------------------------
(* Specification of extract_messages and process_session over the lines of *)
(* one session file: files made of any mix of turns and of records that    *)
(* hold none, and files of turns in the order of their time stamps         *)

MaxLines == 3
MaxChronoLines == 4

\* the records a line may hold
RecordLines ==
    {TurnLine("user", Text(2), Now - 18),
     TurnLine("assistant", Text(1), Now - 17),
     MalformedLine, NonObjectLine, NoTypeLine, NoMessageLine, ShortUserLine,
     UntimedLine("user", Text(2), "missing"),
     UntimedLine("user", Text(2), "garbled"),
     UntimedLine("user", Text(2), "number")}

RecordFiles == SeqsUpTo(RecordLines, MaxLines)

\* a session is appended to as it goes: line j of a file that starts at
\* hour t holds the time stamp t + j - 1.  A file starts an hour before the
\* window or two hours before its end.  A text has one character or one
\* more than the chunk budget
ChronoStarts == {WindowStart - 1, WindowEnd - 2}

ChronoTexts == {Text(1), Text(DefaultMaxChars + 1)}

ChronoFiles ==
    {[j \in 1..Len(f) |-> TurnLine(f[j][1], f[j][2], t + j - 1)] :
        f \in SeqsUpTo({"user", "assistant"} \X ChronoTexts, MaxChronoLines),
        t \in ChronoStarts}

\* nothing in extract_messages or process_session orders the records: a
\* file whose lines hold the hours of StampHours in any order (a log written
\* across a clock adjustment, or merged from two logs), each line a user
\* turn of one character, all of them inside the window and in one chunk
StampHours == {Now - 16, Now - 15, Now - 14}

UnorderedFiles ==
    {[j \in 1..DefaultMaxChars |-> TurnLine("user", Text(1), ts[j])] :
        ts \in [1..DefaultMaxChars -> StampHours]}

\* the outcomes of a chunk's classification call: a timeout, a reply
SessionOutcomes ==
    {[kind |-> "raise", error |-> "TimeoutExpired"],
     Exited(0, LinesOut(<<P0Line, SummaryMarker, BulletLine>>))}

InitExtract ==
    /\ pc = "file_input"
    /\ \/ file_lines \in RecordFiles /\ with_timestamps \in BOOLEAN
       \/ file_lines \in ChronoFiles /\ with_timestamps = TRUE
       \/ file_lines \in UnorderedFiles /\ with_timestamps = TRUE
    /\ extracted = NoCall
    /\ session_result = NoCall
    /\ IdleChunk /\ IdleLabels /\ IdleCalls /\ IdleClassify /\ IdleProjects
    /\ IdleReport /\ IdleWeekly /\ IdleSave /\ IdleScan

\* extract_messages(path, with_timestamps) on the file
ExtractMessages ==
    /\ pc = "file_input"
    /\ extracted' = ExtractLines(<<>>, file_lines, with_timestamps)
    /\ pc' = "extracted"
    /\ UNCHANGED <<file_lines, with_timestamps, session_result,
                   chunkVars, labelVars, callVars, classifyVars, projectVars,
                   reportVars, weeklyVars, saveVars, scanVars>>

\* process_session, which extracts with with_timestamps=True, on the file,
\* with any outcome of each chunk's call
ProcessSession ==
    /\ pc = "extracted"
    /\ with_timestamps
    /\ LET ex == ExtractLoop(<<>>, file_lines) IN
       \E outs \in [1..Len(ExtractedChunks(ex)) -> SessionOutcomes] :
           session_result' = ProcessExtracted(ex, "code/alpha", outs)
    /\ pc' = "processed"
    /\ UNCHANGED <<file_lines, with_timestamps, extracted,
                   chunkVars, labelVars, callVars, classifyVars, projectVars,
                   reportVars, weeklyVars, saveVars, scanVars>>

NextExtract == ExtractMessages \/ ProcessSession

SpecExtract == InitExtract /\ [][NextExtract]_vars

----------------------------------------------------------------------------
(* sessions.get_sessions: the scan of the sessions directory               *)

MaxLogFiles == 3

\* get_sessions(min_turns=3, min_size=5000)
MinTurns == 3
MinSize == 5000
BytesPerKb == 1024

\* a file rglob yields: whether its path holds "subagents", whether stat()
\* succeeds, its size and modification hour, and the number of its records
\* of type user (-1: a line of the file holds a JSON value that is not an
\* object)
LogFile(name, sub, stat_ok, size, mtime, user_records) ==
    [name |-> name, subagent |-> sub, stat_ok |-> stat_ok, size |-> size,
     mtime |-> mtime, user_records |-> user_records]

UnreadableCount == -1

\* the files of the model: two eligible sessions, one modified before the
\* other; a subagent transcript; a file removed between the listing and
\* stat(); a file under the size floor; a file with too few user records;
\* a file modified before `since`; a file count_user_turns cannot count
LogFiles ==
    {LogFile("a", FALSE, TRUE, 3 * MinSize, Now - 5, MinTurns),
     LogFile("b", FALSE, TRUE, MinSize, Now - 2, MinTurns + 1),
     LogFile("subagent", TRUE, TRUE, 3 * MinSize, Now - 1, MinTurns),
     LogFile("removed", FALSE, FALSE, 3 * MinSize, Now - 1, MinTurns),
     LogFile("small", FALSE, TRUE, MinSize - 1, Now - 1, MinTurns),
     LogFile("quiet", FALSE, TRUE, MinSize, Now - 1, MinTurns - 1),
     LogFile("old", FALSE, TRUE, MinSize, WindowStart - 1, MinTurns),
     LogFile("nonobject", FALSE, TRUE, MinSize, Now - 1, UnreadableCount)}

\* the listings rglob yields: no file twice
Listings ==
    {fs \in SeqsUpTo(LogFiles, MaxLogFiles) :
        \A i, j \in 1..Len(fs) : fs[i] = fs[j] => i = j}

\* `since` of the call: None, or the start of the window
NoSince == -1
Sinces == {NoSince, WindowStart}

\* the entry appended for a file
SessionEntry(f, since) ==
    IF since = NoSince
    THEN [path |-> f.name, project |-> "notes",
          size_kb |-> f.size \div BytesPerKb]
    ELSE [path |-> f.name, project |-> "notes",
          size_kb |-> f.size \div BytesPerKb, mtime |-> f.mtime]

\* one pass of the loop body: "skip" (continue), "append", or the exception
\* that leaves the function: stat() is called outside any try block, and so
\* is count_user_turns, whose obj.get raises on a value that is not a dict
FileOutcome(f, since) ==
    IF f.subagent THEN "skip"
    ELSE IF ~f.stat_ok THEN "OSError"
    ELSE IF f.size < MinSize THEN "skip"
    ELSE IF since # NoSince /\ f.mtime < since THEN "skip"
    ELSE IF f.user_records = UnreadableCount THEN "AttributeError"
    ELSE IF f.user_records < MinTurns THEN "skip"
    ELSE "append"

RECURSIVE ScanLoop(_, _, _)
ScanLoop(acc, fs, since) ==
    IF fs = <<>> THEN [kind |-> "ok", sessions |-> acc]
    ELSE LET what == FileOutcome(Head(fs), since) IN
         IF what = "skip" THEN ScanLoop(acc, Tail(fs), since)
         ELSE IF what = "append"
         THEN ScanLoop(Append(acc, SessionEntry(Head(fs), since)),
                       Tail(fs), since)
         ELSE [kind |-> "raise", error |-> what]

\* get_sessions: the loop, then sessions.sort(key=mtime, reverse=True) when
\* since is given
get_sessions(fs, since) ==
    LET r == ScanLoop(<<>>, fs, since) IN
    IF r.kind = "raise" \/ since = NoSince THEN r
    ELSE [kind |-> "ok",
          sessions |-> StableSortDesc(r.sessions, LAMBDA e : e.mtime)]

InitScan ==
    /\ pc = "scan_input"
    /\ log_files \in Listings
    /\ scanned = NoCall
    /\ IdleChunk /\ IdleLabels /\ IdleCalls /\ IdleClassify /\ IdleProjects
    /\ IdleReport /\ IdleWeekly /\ IdleSave /\ IdleExtract

GetSessions ==
    /\ pc = "scan_input"
    /\ \E since \in Sinces : scanned' = get_sessions(log_files, since)
    /\ pc' = "scanned"
    /\ UNCHANGED <<log_files, chunkVars, labelVars, callVars, classifyVars,
                   projectVars, reportVars, weeklyVars, saveVars,
                   extractVars>>

NextScan == GetSessions

SpecScan == InitScan /\ [][NextScan]_vars

\* total character length of the texts of a chunk
ChunkLen(c) == SumSeq([i \in 1..Len(c) |-> Len(c[i].text)])

\* number of turns in the chunks before chunk k
ChunkOffset(k) == SumSeq([i \in 1..(k - 1) |-> Len(chunks[i])])

\* the text an oversized turn must come out with: its first max_chars
\* characters followed by the suffix marker
ExpectedTruncated(text) == SubSeq(text, 1, max_chars) \o TruncSuffix

Oversized(m) == Len(m.text) > max_chars

\* C5: every chunk's total text length is at most the budget, except a chunk
\* made of a single oversized turn, whose text is exactly the first
\* max_chars characters of the original turn plus the truncation suffix.
C5_ChunkBudget ==
    pc = "chunked" =>
        \A k \in 1..Len(chunks) :
            \/ ChunkLen(chunks[k]) <= max_chars
            \/ /\ Len(chunks[k]) = 1
               /\ ChunkOffset(k) + 1 <= Len(messages)
               /\ Oversized(messages[ChunkOffset(k) + 1])
               /\ chunks[k][1].text =
                      ExpectedTruncated(messages[ChunkOffset(k) + 1].text)

\* a run with a truncated single-turn chunk and a multi-turn chunk that
\* fills the budget exactly
C5_Witness ==
    /\ pc = "chunked"
    /\ \E k \in 1..Len(chunks) :
          Len(chunks[k]) = 1 /\ ChunkLen(chunks[k]) > max_chars
    /\ \E k \in 1..Len(chunks) :
          Len(chunks[k]) >= 2 /\ ChunkLen(chunks[k]) = max_chars

\* C6: an oversized turn is never split and never dropped: the chunk at its
\* position holds it alone, truncated to max_chars characters plus the
\* suffix, whatever precedes or follows it; a single oversized turn gives
\* exactly one chunk.
C6_OversizedAlone ==
    pc = "chunked" =>
        /\ Len(Flatten(chunks)) = Len(messages)
        /\ \A j \in 1..Len(messages) :
              Oversized(messages[j]) =>
                  /\ Cardinality({k \in 1..Len(chunks) :
                          /\ ChunkOffset(k) < j
                          /\ j <= ChunkOffset(k) + Len(chunks[k])}) = 1
                  /\ \E k \in 1..Len(chunks) :
                        /\ ChunkOffset(k) = j - 1
                        /\ chunks[k] =
                             <<[role |-> messages[j].role,
                                text |-> ExpectedTruncated(messages[j].text)]>>
        /\ (Len(messages) = 1 /\ Oversized(messages[1])) => Len(chunks) = 1

\* an oversized turn with a turn before it and a turn after it
C6_Witness ==
    /\ pc = "chunked"
    /\ Len(messages) = 3
    /\ Oversized(messages[2])
    /\ ~Oversized(messages[1]) /\ ~Oversized(messages[3])
    /\ Len(chunks) = 3

\* C7: the chunks concatenated in order are the input sequence: same number
\* of turns, same roles in the same order, same texts except for truncated
\* oversized turns; no chunk is empty; an empty input gives no chunks.
C7_ChunksConcat ==
    pc = "chunked" =>
        LET flat == Flatten(chunks) IN
        /\ Len(flat) = Len(messages)
        /\ \A j \in 1..Len(messages) :
              /\ flat[j].role = messages[j].role
              /\ flat[j].text = IF Oversized(messages[j])
                                THEN ExpectedTruncated(messages[j].text)
                                ELSE messages[j].text
        /\ \A k \in 1..Len(chunks) : chunks[k] # <<>>
        /\ messages = <<>> => chunks = <<>>

\* three turns of both roles split over two chunks, one turn truncated
C7_Witness ==
    /\ pc = "chunked"
    /\ Len(messages) = 3
    /\ Len(chunks) = 2
    /\ \E j \in 1..3 : Oversized(messages[j])
    /\ \E i, j \in 1..3 : messages[i].role # messages[j].role

----------------------------------------------------------------------------
(* Label consolidation: claims *)

\* sum of the turns of a returned list
ReturnedTurns(bd, es) == SumSeq([k \in 1..Len(es) |-> Deref(bd, es[k]).turns])

InputTurns(bd) == SumSeq([i \in 1..Len(bd) |-> bd[i].turns])

\* the oracle call completed and its stdout parsed as a grouping
ParsedResponse ==
    pc = "labels_done" /\ oracle.kind = "exit" /\ oracle.stdout.form = "json"

\* the groups that became entries of the returned list (none when the call
\* fell back to the input list)
GroupsReturned ==
    IF Cardinality({k \in 1..Len(consolidated) :
                       consolidated[k].kind = "group"}) = Len(groups)
    THEN groups ELSE <<>>

\* group g counts the turns of the item at index i (0-based)
GroupHolds(bd, g, i) ==
    \E k \in 1..Len(g.items) :
        g.items[k] < Len(bd) /\ (g.items[k] = i \/ g.items[k] + Len(bd) = i)

\* number of entries of the returned list that account for index i
BucketCount(i) ==
    Cardinality({j \in 1..Len(GroupsReturned) :
                    GroupHolds(breakdown, GroupsReturned[j], i)})
        + Cardinality({k \in 1..Len(consolidated) :
                          consolidated[k] = ItemRef(i)})

\* C1: for a breakdown of more than 5 items and any oracle response that
\* parses, the turns of the returned list sum to the turns of the input and
\* every input index is accounted for in exactly one returned entry.
C1_ConsolidationConserves ==
    (ParsedResponse /\ Len(breakdown) > ConsolidateThreshold) =>
        /\ ReturnedTurns(breakdown, consolidated) = InputTurns(breakdown)
        /\ \A i \in 0..(Len(breakdown) - 1) : BucketCount(i) = 1

\* index i (0-based) is written in no group of the response
Unreferenced(i) ==
    \A j \in 1..Len(groups) :
        \A k \in 1..Len(groups[j].items) : groups[j].items[k] # i

\* C2: every input item whose index no group of the response references is
\* in the returned list exactly once, as the input dict itself (same name,
\* turns and pct).
C2_MissedItemsCarried ==
    (pc = "labels_done" /\ Len(breakdown) > ConsolidateThreshold) =>
        \A i \in 0..(Len(breakdown) - 1) :
            Unreferenced(i) =>
                /\ Cardinality({k \in 1..Len(consolidated) :
                        consolidated[k] = ItemRef(i)}) = 1
                /\ \E k \in 1..Len(consolidated) :
                      /\ consolidated[k] = ItemRef(i)
                      /\ Deref(breakdown, consolidated[k]) = breakdown[i + 1]

\* a response that groups some items and omits others, which are carried
\* behind a group of more turns
C2_Witness ==
    /\ ParsedResponse
    /\ Len(breakdown) > ConsolidateThreshold
    /\ consolidated # <<>>
    /\ consolidated[1].kind = "group"
    /\ consolidated[1].turns > 0
    /\ \E i \in 0..(Len(breakdown) - 1) :
          /\ Unreferenced(i)
          /\ \E k \in 1..Len(consolidated) : consolidated[k] = ItemRef(i)
    /\ \E i \in 0..(Len(breakdown) - 1) : ~Unreferenced(i)

\* C8: on a breakdown of 5 or fewer items the call returns the input list
\* itself, makes no oracle call and adds no warning.
C8_SmallBreakdownIdentity ==
    (pc = "labels_done" /\ Len(breakdown) <= ConsolidateThreshold) =>
        /\ consolidated = SameList(breakdown)
        /\ [k \in 1..Len(consolidated) |-> Deref(breakdown, consolidated[k])]
              = breakdown
        /\ oracle_calls = 0
        /\ oracle = NoCall
        /\ warnings = <<>>

\* a breakdown of exactly 5 items with turns passed through
C8_Witness ==
    /\ pc = "labels_done"
    /\ Len(breakdown) = ConsolidateThreshold
    /\ breakdown[1].turns > 0
    /\ consolidated = SameList(breakdown)

\* the oracle call of the label consolidation failed: timeout, process
\* error, non-zero exit, empty output, output that is not JSON
LabelCallFailed(o) ==
    \/ o.kind = "raise"
    \/ /\ o.kind = "exit"
       /\ \/ o.returncode # 0
          \/ o.stdout.form \in {"empty", "garbage"}

\* C12: for every failure of the oracle call of the label consolidation
\* (timeout, process error, non-zero exit, empty output, output that is not
\* valid JSON) the call returns the untouched input breakdown and appends a
\* warning to the report's warning list.
C12_LabelFailureWarned ==
    (pc = "labels_done" /\ LabelCallFailed(oracle)) =>
        /\ consolidated = SameList(breakdown)
        /\ warnings = <<LabelWarning>>

\* the response references an index outside 0..len(breakdown)-1
OutOfRangeIndex ==
    \E j \in 1..Len(groups) :
        \E k \in 1..Len(groups[j].items) :
            groups[j].items[k] < 0 \/ groups[j].items[k] >= Len(breakdown)

\* C13: when the response of the label consolidation references an index
\* outside 0..len(breakdown)-1, the response is treated as a failed call:
\* the input breakdown is returned unchanged and a warning is recorded.
C13_OutOfRangeIsFailure ==
    (ParsedResponse /\ Len(breakdown) > ConsolidateThreshold
        /\ OutOfRangeIndex) =>
        /\ consolidated = SameList(breakdown)
        /\ warnings = <<LabelWarning>>

----------------------------------------------------------------------------
(* Classification call: claims *)

\* the output carries no PRIORITY: line whose text starts with a known tag
UnparseableOutput(out) ==
    \/ out.form = "empty"
    \/ /\ out.form = "lines"
       /\ \A i \in 1..Len(out.lines) :
             ~StartsWith(out.lines[i], PriorityMarker)

\* the call itself failed: process error, timeout, non-zero exit, empty or
\* unparseable output
CallFailed(o) ==
    \/ o.kind = "raise"
    \/ /\ o.kind = "exit"
       /\ (o.returncode # 0 \/ UnparseableOutput(o.stdout))

\* C10: for every failure of the classification call (process error,
\* timeout, non-zero exit, empty or unparseable output) the call returns a
\* ChunkResult whose tag is UNCLEAR.
C10_FailureIsUnclear ==
    (pc = "classified" /\ CallFailed(oracle)) =>
        chunk_result.priority = Unclear

\* the call raised, or returned output without a PRIORITY: line
ClassifyFailure(o) ==
    \/ o.kind = "raise"
    \/ o.kind = "exit" /\ UnparseableOutput(o.stdout)

\* the text "(summarization failed)"
FailedSummary == <<<<"(summarization failed)">>>>

\* the combined synopsis process_session builds for a session made of the
\* classified chunk alone
CombinedAlone == Combined(<<chunk_result>>)

\* C11 as stated: when the classification call fails, the ChunkResult has
\* an empty synopsis and a label that embeds the failure reason, and the
\* chunk contributes no text to the session's combined synopsis.
C11_FailureHasEmptySynopsis ==
    (pc = "classified" /\ ClassifyFailure(oracle)) =>
        /\ chunk_result.summary = <<>>
        /\ chunk_result.priority_name[1] = "(failed: "
        /\ CombinedAlone = NoContent

\* the output holds a SUMMARY: line
HasSummaryBlock(out) ==
    /\ out.form = "lines"
    /\ \E i \in 1..Len(out.lines) : StartsWith(out.lines[i], SummaryMarker)

\* C11 as amended: when the classification call raises, the ChunkResult has
\* tag UNCLEAR, the label "(failed: <reason>)" and the synopsis
\* "(summarization failed)", and that text is what the chunk contributes to
\* the session's combined synopsis.  When the call returns output without a
\* PRIORITY: line, the tag and the label are both "UNCLEAR", no reason is
\* embedded, and the synopsis is empty unless the output holds a SUMMARY:
\* block.
C11_FailureHasPlaceholderSynopsis ==
    pc = "classified" =>
        /\ oracle.kind = "raise" =>
              /\ chunk_result.priority = Unclear
              /\ chunk_result.priority_name = <<"(failed: ", oracle.error, ")">>
              /\ chunk_result.summary = FailedSummary
              /\ CombinedAlone = FailedSummary
        /\ (oracle.kind = "exit" /\ UnparseableOutput(oracle.stdout)) =>
              /\ chunk_result.priority = Unclear
              /\ chunk_result.priority_name = Unclear
              /\ ~HasSummaryBlock(oracle.stdout) =>
                    /\ chunk_result.summary = <<>>
                    /\ CombinedAlone = NoContent

\* a chunk with a user turn whose call timed out
C11_Witness ==
    /\ pc = "classified"
    /\ oracle.kind = "raise"
    /\ oracle.error = "TimeoutExpired"
    /\ chunk_result.user_turns >= 1
    /\ chunk_result.summary = FailedSummary
    /\ CombinedAlone # NoContent

----------------------------------------------------------------------------
(* Project-synopsis consolidation: claims *)

HasSynopsis(proj) ==
    /\ \E i \in 1..Len(proj.summaries) :
          \E j \in 1..Len(proj.summaries[i]) :
              \E k \in 1..Len(proj.summaries[i][j]) :
                  proj.summaries[i][j][k] \notin Whitespace
    /\ proj.summaries # <<<<<<"(no content)">>>>>>

ProjectCallFailed(o) ==
    \/ o.kind = "raise"
    \/ /\ o.kind = "exit"
       /\ (o.returncode # 0 \/ o.stdout.form = "empty")

\* C14: for every top-10 project whose oracle call fails (timeout, process
\* error, non-zero exit, empty output) the entry returned keeps the
\* project's original synopsis list.
C14_FailedProjectKeepsSynopses ==
    pc = "projects_done" =>
        \A i \in 1..Min(Len(projects), TopProjects) :
            ProjectCallFailed(project_oracle[i]) =>
                ProjDeref(projects, consolidated_projects[i]).summaries
                    = projects[i].summaries

----------------------------------------------------------------------------
(* generate_report: claims *)

\* the chunk results of the collected session results, as
\* [session, chunk] index pairs
ChunkResults ==
    UNION {{<<i, k>> : k \in 1..Len(results[i].chunks)} :
              i \in 1..Len(results)}

\* sum of user_turns over all chunk results
TurnsOfChunks ==
    SumSeq([i \in 1..Len(results) |->
               SumSeq([k \in 1..Len(results[i].chunks) |->
                          results[i].chunks[k].user_turns])])

\* the chunk results of category p
ChunksOf(p) ==
    {ik \in ChunkResults : results[ik[1]].chunks[ik[2]].priority = p}

\* the classification call of the chunk raised
CallRaised(c) == c.priority_name # <<>> /\ c.priority_name[1] = "(failed: "

\* C3: in the report, the category totals of user turns add up to
\* total_user_turns, which is the sum of user_turns over all chunk results;
\* the category chunk counts add up to the number of chunk results; every
\* chunk is counted in exactly one category, its own, which is UNCLEAR when
\* its classification call failed.
C3_AggregationConserves ==
    pc = "reported" =>
        /\ DictSum(report.by_user_turns) = report.total_user_turns
        /\ report.total_user_turns = TurnsOfChunks
        /\ DictSum(report.by_chunk_count) = Cardinality(ChunkResults)
        /\ \A ik \in ChunkResults :
              LET c == results[ik[1]].chunks[ik[2]] IN
              /\ c.priority \in DictKeys(report.by_chunk_count)
              /\ CallRaised(c) => c.priority = Unclear
        /\ \A j \in 1..Len(report.by_chunk_count) :
              LET p == report.by_chunk_count[j].key IN
              /\ report.by_chunk_count[j].val = Cardinality(ChunksOf(p))
              /\ DictGet(report.by_user_turns, p, -1) =
                    SumSeq([i \in 1..Len(results) |->
                       SumSeq([k \in 1..Len(results[i].chunks) |->
                          IF results[i].chunks[k].priority = p
                          THEN results[i].chunks[k].user_turns ELSE 0])])

\* a report over two sessions and at least three chunks, with two chunks of
\* one category that both hold user turns, a chunk whose call failed and
\* two categories or more
C3_Witness ==
    /\ pc = "reported"
    /\ Len(results) = 2
    /\ Cardinality(ChunkResults) >= 3
    /\ Len(report.by_user_turns) >= 2
    /\ \E ik \in ChunkResults : CallRaised(results[ik[1]].chunks[ik[2]])
    /\ \E j \in 1..Len(report.by_chunk_count) :
          /\ report.by_chunk_count[j].val >= 2
          /\ report.by_chunk_count[j].key # Unclear
          /\ \A ik \in ChunksOf(report.by_chunk_count[j].key) :
                results[ik[1]].chunks[ik[2]].user_turns > 0

\* an oracle call of the run failed: a chunk classification, the label
\* consolidation or a project consolidation
SomeCallFailed ==
    \/ \E ik \in ChunkResults : CallRaised(results[ik[1]].chunks[ik[2]])
    \/ oracle.kind = "raise"
    \/ \E i \in 1..Len(project_oracle) : project_oracle[i].kind = "raise"

\* C15: in every run of generate_report in which an oracle call failed (a
\* chunk classification, the label consolidation or a project-synopsis
\* consolidation) the warnings list of the report is not empty.
C15_FailureGivesWarning ==
    (pc = "reported" /\ SomeCallFailed) => warnings # <<>>

\* no file of the batch makes its task raise
NoTaskRaises ==
    \A i \in 1..Len(sessions) :
        extract_messages(sessions[i].path).kind # "raise"

Collected == {i \in 1..Len(sessions) : task_state[i] = "collected"}

TaskRaised(i) ==
    task_state[i] \in {"done", "collected"} /\ task_outcome[i].kind = "raise"

\* C4 as stated: a task that fails with an exception counts as "no result"
\* for its file: the batch is not aborted, and once every future has been
\* taken the results of all the other files have been collected.
C4_TaskFailureIsNoResult ==
    (\E i \in 1..Len(sessions) : TaskRaised(i)) =>
        /\ pc # "raised"
        /\ completed = Len(sessions) =>
              Len(results) =
                  Cardinality({j \in 1..Len(sessions) :
                                  task_outcome[j].kind = "result"})

----------------------------------------------------------------------------
(* C17 *)

\* the turns of category p summed over the days of rs
CategorySum(rs, p) ==
    SumSeq([i \in 1..Len(rs) |-> DictGet(DayTurns(rs[i]), p, 0)])

\* every day's by_user_turns sums to the day's total_user_turns
DaysConsistent(rs) ==
    \A i \in 1..Len(rs) : DictSum(DayTurns(rs[i])) = DayTotal(rs[i])

\* C17: for a non-empty list of daily reports, aggregate_reports returns a
\* by_user_turns that holds, for every category of any day and for no other,
\* the sum of that category over the days, and a total_user_turns that is
\* the sum of the days' totals; when every day's categories sum to the day's
\* total, the weekly categories sum to the weekly total
C17_WeeklySumsDays ==
    (pc = "aggregated" /\ reports # <<>>) =>
        /\ DictKeys(weekly.by_user_turns) =
               UNION {DictKeys(DayTurns(reports[i])) : i \in 1..Len(reports)}
        /\ Len(weekly.by_user_turns) = Cardinality(DictKeys(weekly.by_user_turns))
        /\ \A p \in DictKeys(weekly.by_user_turns) :
               DictGet(weekly.by_user_turns, p, 0) = CategorySum(reports, p)
        /\ weekly.total_user_turns =
               SumSeq([i \in 1..Len(reports) |-> DayTotal(reports[i])])
        /\ DaysConsistent(reports) =>
               DictSum(weekly.by_user_turns) = weekly.total_user_turns

\* C17 witness: two consistent days, {P0, P1} then {TOOLING, P0}, aggregated
\* into three categories with P0 holding the turns of both days
C17_Witness ==
    /\ pc = "aggregated"
    /\ Len(reports) = 2
    /\ DaysConsistent(reports)
    /\ DictKeys(DayTurns(reports[1])) = {"P0", "P1"}
    /\ DictKeys(DayTurns(reports[2])) = {"TOOLING", "P0"}
    /\ Len(weekly.by_user_turns) = 3
    /\ DictGet(weekly.by_user_turns, "P0", 0) =
           DictGet(DayTurns(reports[1]), "P0", 0)
               + DictGet(DayTurns(reports[2]), "P0", 0)
    /\ weekly.total_user_turns = DictSum(weekly.by_user_turns)
    /\ weekly.total_user_turns > 0

----------------------------------------------------------------------------
(* C18 *)

\* p, in tenths of a percent, is 100 * turns / total rounded to one
\* decimal: no other multiple of 0.1 is nearer; 0 when total is 0
IsRoundedPct(p, turns, total) ==
    IF total = 0 THEN p = 0
    ELSE /\ 2 * (p * total - 1000 * turns) <= total
         /\ 2 * (1000 * turns - p * total) <= total

\* the entries of the list consolidate_priority_names returned, as dicts
ReturnedEntries ==
    [k \in 1..Len(consolidated) |-> Deref(breakdown, consolidated[k])]

\* C18: every entry of the by_priority_name list that comes back from the
\* consolidation, a group built by the call or an item carried through,
\* holds the percentage 100 * turns / total_turns rounded to one decimal of
\* its own turns and the total handed in, and 0 when the total is 0; so
\* does every category of a report's percentage_of_effort and every entry
\* of its by_priority_name
C18_PercentagesRecomputed ==
    /\ pc = "labels_done" =>
           \A k \in 1..Len(ReturnedEntries) :
               IsRoundedPct(ReturnedEntries[k].pct, ReturnedEntries[k].turns,
                            total_turns)
    /\ pc = "reported" =>
           /\ DictKeys(report.percentage_of_effort) =
                  DictKeys(report.by_user_turns)
           /\ \A p \in DictKeys(report.by_user_turns) :
                  IsRoundedPct(DictGet(report.percentage_of_effort, p, -1),
                               DictGet(report.by_user_turns, p, 0),
                               report.total_user_turns)
           /\ \A k \in 1..Len(report.by_priority_name) :
                  IsRoundedPct(report.by_priority_name[k].pct,
                               report.by_priority_name[k].turns,
                               report.total_user_turns)

\* C18 witness: a returned list that holds a group of two items, whose
\* percentage is not the sum of the two items' percentages, next to an item
\* carried through
C18_Witness ==
    /\ pc = "labels_done"
    /\ total_turns > 0
    /\ \E k, l \in 1..Len(consolidated) :
          /\ consolidated[k].kind = "group"
          /\ consolidated[k].turns > 0
          /\ \E g \in 1..Len(groups) :
                /\ groups[g].name = consolidated[k].name
                /\ Len(groups[g].items) = 2
                /\ \A j \in 1..2 : groups[g].items[j] \in 0..(Len(breakdown) - 1)
                /\ groups[g].items[1] # groups[g].items[2]
                /\ consolidated[k].pct #
                       breakdown[groups[g].items[1] + 1].pct
                           + breakdown[groups[g].items[2] + 1].pct
          /\ consolidated[l].kind = "item"
          /\ ReturnedEntries[l].pct > 0

\* C18 witness of the zero total: six labels without any user turn are
\* consolidated into a group of percentage 0
C18_ZeroTotalReached ==
    /\ pc = "labels_done"
    /\ total_turns = 0
    /\ \E k \in 1..Len(consolidated) : consolidated[k].kind = "group"

----------------------------------------------------------------------------
(* C19 *)

\* the number of user turns of the file at path that lie inside the window
UserTurnsInWindow(path) ==
    LET lines == FileAt(path).lines IN
    Cardinality({j \in 1..Len(lines) :
                    /\ lines[j].kind = "turn"
                    /\ lines[j].role = "user"
                    /\ WindowStart <= lines[j].timestamp
                    /\ lines[j].timestamp <= WindowEnd})

\* C19: every result process_session returned holds a total_user_turns
\* that is the sum of the user_turns of its chunk results, and that is the
\* number of user turns of the file inside the window
C19_SessionTurnsExact ==
    \A i \in 1..Len(sessions) :
        task_outcome[i].kind = "result" =>
            LET v == task_outcome[i].value IN
            /\ v.total_user_turns =
                   SumSeq([k \in 1..Len(v.chunks) |-> v.chunks[k].user_turns])
            /\ v.total_user_turns = UserTurnsInWindow(sessions[i].path)

\* C19 witness: a file whose turns inside the window were split into two
\* chunks, each holding one user turn, next to an assistant turn
C19_Witness ==
    \E i \in 1..Len(sessions) :
        /\ task_outcome[i].kind = "result"
        /\ Len(task_outcome[i].value.chunks) = 2
        /\ \A k \in 1..2 : task_outcome[i].value.chunks[k].user_turns = 1
        /\ task_outcome[i].value.total_user_turns = 2
        /\ Len(FilterWindow(extract_messages(sessions[i].path).messages)) = 3

----------------------------------------------------------------------------
(* C20 *)

\* no two rows of the stream hold the same (date, hour)
OneRowPerDateHour ==
    \A i, j \in 1..Len(timeseries) :
        (timeseries[i].date = timeseries[j].date
            /\ timeseries[i].hour = timeseries[j].hour) => i = j

\* a step leaves the rows written so far in place
RowsKept ==
    /\ Len(timeseries') >= Len(timeseries)
    /\ SubSeq(timeseries', 1, Len(timeseries)) = timeseries

\* C20 as stated: after any sequence of save_report calls the stream holds
\* at most one row per (date, hour), and no call modifies or removes a row
\* written earlier
C20_OneRowPerDateHourAppendOnly == []OneRowPerDateHour /\ [][RowsKept]_vars

\* the part of C20 that holds: rows written earlier are never modified or
\* removed, and the daily directory holds one file per date saved
C20_AppendOnly ==
    /\ [][RowsKept]_vars
    /\ [](Len(daily_files) = Cardinality(DictKeys(daily_files)))

\* a report saved twice under one date has left two rows for one hour
C20_DuplicateRowReached ==
    /\ saves = 2
    /\ Len(daily_files) = 1
    /\ ~OneRowPerDateHour

----------------------------------------------------------------------------
(* C21 *)

\* a line holds a turn: a well-formed record of a user or assistant text,
\* with a time stamp when time stamps are requested
HoldsTurn(l, wt) == l.kind = "turn" \/ (l.kind = "untimed" /\ ~wt)

\* the turns of the lines that hold one, in file order
TurnsOfFile(ls, wt) ==
    LET held == SelectSeq(ls, LAMBDA l : HoldsTurn(l, wt))
    IN  [j \in 1..Len(held) |-> TurnEntry(held[j], wt)]

\* C21 as stated: whatever records the file holds, extract_messages does
\* not abort and returns, in file order, the turns of all the lines that
\* hold one; every other line is skipped on its own
C21_BadRecordSkipped ==
    extracted # NoCall =>
        /\ extracted.kind = "ok"
        /\ extracted.messages = TurnsOfFile(file_lines, with_timestamps)

\* the part of C21 that holds: a file without a line whose JSON value is
\* not an object and, when time stamps are requested, without a time stamp
\* that is a number, is extracted as claimed
C21_SkippedUnlessAttributeError ==
    (extracted # NoCall
        /\ \A j \in 1..Len(file_lines) :
              RecordOutcome(file_lines[j], with_timestamps) # "raise") =>
        /\ extracted.kind = "ok"
        /\ extracted.messages = TurnsOfFile(file_lines, with_timestamps)

\* a file whose second line holds a JSON list between two turns has made
\* the call raise
C21_AbortReached ==
    /\ extracted # NoCall
    /\ Len(file_lines) = 3
    /\ file_lines[1].kind = "turn" /\ file_lines[3].kind = "turn"
    /\ file_lines[2] = NonObjectLine
    /\ extracted.kind = "raise"

----------------------------------------------------------------------------
(* C22 *)

\* the files of a listing that stat() fails on
StatErrors(fs) == {i \in 1..Len(fs) : ~fs[i].subagent /\ ~fs[i].stat_ok}

\* the listing without the files stat() fails on
Statable(fs) == SelectSeq(fs, LAMBDA f : f.subagent \/ f.stat_ok)

\* the scan of fs gave the same list, with or without `since`, as the scan
\* of gs
SameScan(r, gs) == \E since \in Sinces : r = get_sessions(gs, since)

\* C22 as stated: a file stat() fails on is left out and nothing else
\* changes: the scan returns what it returns for the listing without that
\* file
C22_StatErrorExcludesFile ==
    (scanned # NoCall /\ StatErrors(log_files) # {}) =>
        /\ scanned.kind = "ok"
        /\ SameScan(scanned, Statable(log_files))

\* a listing that holds an eligible file before and after the file stat()
\* fails on has made the scan raise
C22_AbortReached ==
    /\ scanned # NoCall
    /\ Len(log_files) = 3
    /\ FileOutcome(log_files[1], NoSince) = "append"
    /\ ~log_files[2].stat_ok
    /\ FileOutcome(log_files[3], NoSince) = "append"
    /\ scanned = [kind |-> "raise", error |-> "OSError"]

----------------------------------------------------------------------------
(* C23 *)

\* the tag vocabulary as a set, and the entries that contain "OFF"
TagVocabulary == {TagTable[k] : k \in 1..Len(TagTable)}
OffVariants ==
    {<<"O", "F", "F", "-", "P", "R", "I", "O", "R", "I", "T", "Y">>,
     <<"O", "F", "F", " ", "P", "R", "I", "O", "R", "I", "T", "Y">>,
     <<"O", "F", "F", "P", "R", "I", "O", "R", "I", "T", "Y">>,
     <<"O", "F", "F">>}

\* the PRIORITY line the scan of a reply ends with
PriorityLineOf(o) ==
    ScanLines([priority_line |-> Unclear, summary_lines |-> <<>>,
               in_summary |-> FALSE],
              OutputLines(o.stdout)).priority_line

\* the entries of the vocabulary that are a prefix of the line, whatever
\* its case
PrefixTags(line) == {t \in TagVocabulary : StartsWith(Upper(line), t)}

\* the line after its first n characters, trimmed of separators
LabelAfter(line, n) ==
    StripChars(SubSeq(line, n + 1, Len(line)), {":", " ", "-"})

\* C23: the tag chosen for a PRIORITY line is the longest entry of the tag
\* vocabulary that is a case-insensitive prefix of the line; every OFF
\* variant gives the tag OFF-PRIORITY; the label is the rest of the line
\* after the matched prefix, trimmed of separators; a line that no entry
\* matches gives UNCLEAR.
C23_LongestPrefixTag ==
    (pc = "classified" /\ oracle.kind = "exit") =>
        LET line == PriorityLineOf(oracle)
            tags == PrefixTags(line)
        IN  IF tags = {} THEN chunk_result.priority = Unclear
            ELSE \E t \in tags :
                    /\ \A u \in tags : Len(u) <= Len(t)
                    /\ chunk_result.priority =
                           (IF t \in OffVariants THEN OffPriority ELSE t)
                    /\ chunk_result.priority_name = LabelAfter(line, Len(t))

\* C23 (witness): a reply whose line starts with two entries of the
\* vocabulary, OFF and one of its longer variants, has been classified
C23_Witness ==
    /\ pc = "classified" /\ oracle.kind = "exit"
    /\ Cardinality(PrefixTags(PriorityLineOf(oracle))) > 1
    /\ chunk_result.priority = OffPriority
    /\ chunk_result.priority_name = <<"t", "v">>

\* C23 (witness): a line that starts with OFF alone, and a line no entry
\* matches
C23_PlainOffReached ==
    /\ pc = "classified" /\ oracle.kind = "exit"
    /\ PrefixTags(PriorityLineOf(oracle)) = {Off}
    /\ chunk_result.priority = OffPriority

C23_NoMatchReached ==
    /\ pc = "classified" /\ oracle.kind = "exit"
    /\ PriorityLineOf(oracle) # Unclear
    /\ PrefixTags(PriorityLineOf(oracle)) = {}
    /\ chunk_result.priority = Unclear

----------------------------------------------------------------------------
(* C24 *)

\* the turns of the file inside the window, once process_session has
\* extracted them
FilteredTurns == FilterWindow(extracted.messages)

\* the number of turns in the chunks before chunk k
TurnsBefore(cs, k) == SumSeq([j \in 1..(k - 1) |-> Len(cs[j])])

\* the time stamps of the user turns of the file that chunk k holds, in the
\* order of the file
UserStampsOfChunk(cs, k) ==
    LET held == SubSeq(FilteredTurns, TurnsBefore(cs, k) + 1,
                       TurnsBefore(cs, k) + Len(cs[k]))
        users == SelectSeq(held, LAMBDA t : t.role = "user")
    IN  [i \in 1..Len(users) |-> users[i].timestamp]

\* m is a median of the list: one of its values, with at least half of the
\* values at or below it and at least half at or above it (the lower and
\* the upper median of a list of even length both are)
IsMedianOf(m, ts) ==
    /\ \E i \in 1..Len(ts) : ts[i] = m
    /\ 2 * Cardinality({i \in 1..Len(ts) : ts[i] <= m}) >= Len(ts)
    /\ 2 * Cardinality({i \in 1..Len(ts) : ts[i] >= m}) >= Len(ts)

\* the chunks of the file are its turns inside the window, cut at the chunk
\* boundaries: turn j of chunk k has the role of the turn at the running
\* index
ChunksAligned(cs) ==
    /\ SumSeq([k \in 1..Len(cs) |-> Len(cs[k])]) = Len(FilteredTurns)
    /\ \A k \in 1..Len(cs) : \A j \in 1..Len(cs[k]) :
          cs[k][j].role = FilteredTurns[TurnsBefore(cs, k) + j].role

\* C24: for every chunk built by process_session the time stamps considered
\* are those of the user turns the chunk holds, the hour of the chunk is the
\* hour of day of the median of those time stamps, and the hour is absent
\* exactly when the chunk holds no user turn.
C24_HourOfMedianUserStamp ==
    (pc = "processed" /\ session_result.kind = "result") =>
        LET cs == ExtractedChunks(extracted)
            rs == session_result.value.chunks
        IN  /\ Len(rs) = Len(cs)
            /\ ChunksAligned(cs)
            /\ \A k \in 1..Len(cs) :
                  LET ts == UserStampsOfChunk(cs, k) IN
                  IF ts = <<>> THEN rs[k].hour = NoHour
                  ELSE \E i \in 1..Len(ts) :
                          /\ IsMedianOf(ts[i], ts)
                          /\ rs[k].hour = Hour(ts[i])

\* C24 (what holds): the running index is aligned with the chunk
\* boundaries, the hour of a chunk is the hour of the user time stamp at
\* position len // 2 in the order of the file, which is the upper median
\* when the user time stamps of the chunk do not decrease, and the hour is
\* absent exactly when the chunk holds no user turn.
C24_HourOfMiddleUserStamp ==
    (pc = "processed" /\ session_result.kind = "result") =>
        LET cs == ExtractedChunks(extracted)
            rs == session_result.value.chunks
        IN  /\ Len(rs) = Len(cs)
            /\ ChunksAligned(cs)
            /\ \A k \in 1..Len(cs) :
                  LET ts == UserStampsOfChunk(cs, k) IN
                  /\ (rs[k].hour = NoHour) <=> (ts = <<>>)
                  /\ ts # <<>> =>
                        /\ rs[k].hour = Hour(ts[(Len(ts) \div 2) + 1])
                        /\ rs[k].hour \in 0..(HoursPerDay - 1)
                        /\ (\A i \in 1..(Len(ts) - 1) : ts[i] <= ts[i + 1])
                              => IsMedianOf(ts[(Len(ts) \div 2) + 1], ts)

\* C24 (reached): a chunk whose hour is not the hour of a median of its
\* user time stamps
C24_NotMedianReached ==
    /\ pc = "processed" /\ session_result.kind = "result"
    /\ \E k \in 1..Len(session_result.value.chunks) :
          LET ts == UserStampsOfChunk(ExtractedChunks(extracted), k) IN
          /\ Len(ts) = 3
          /\ \A i \in 1..Len(ts) :
                IsMedianOf(ts[i], ts) =>
                    session_result.value.chunks[k].hour # Hour(ts[i])

\* C24 (reached): a file of two chunks with different hours, the first one
\* with an assistant turn; a chunk without hour
C24_SecondChunkReached ==
    /\ pc = "processed" /\ session_result.kind = "result"
    /\ Len(session_result.value.chunks) = 2
    /\ \E j \in 1..Len(ExtractedChunks(extracted)[1]) :
          ExtractedChunks(extracted)[1][j].role = "assistant"
    /\ session_result.value.chunks[1].hour # NoHour
    /\ session_result.value.chunks[2].hour # NoHour
    /\ session_result.value.chunks[2].hour
          # session_result.value.chunks[1].hour

C24_NoHourReached ==
    /\ pc = "processed" /\ session_result.kind = "result"
    /\ \E k \in 1..Len(session_result.value.chunks) :
          session_result.value.chunks[k].hour = NoHour

----------------------------------------------------------------------------
(* C25 *)

\* a dict as the map it is, without the order of insertion of its keys
DictMap(d) == {<<d[i].key, d[i].val>> : i \in 1..Len(d)}

\* the results in the orders in which the pool can complete their tasks
Reorderings(rs) ==
    {[i \in 1..Len(rs) |-> rs[f[i]]] :
        f \in {g \in [1..Len(rs) -> 1..Len(rs)] :
                  \A i, j \in 1..Len(rs) : g[i] = g[j] => i = j}}

\* the category totals, the label totals and the hourly map of the reduce
\* step
TotalsOf(rs) ==
    LET agg == Aggregate(rs) IN
    [turns |-> DictMap(agg.priority_turns),
     chars |-> DictMap(agg.priority_chars),
     chunks |-> DictMap(agg.priority_chunks),
     labels |-> DictMap(agg.priority_name_turns),
     total_turns |-> agg.total_turns,
     total_chars |-> agg.total_chars,
     hourly |-> [h \in 0..(HoursPerDay - 1) |->
                    DictMap(agg.hourly_priority_turns[h])]]

\* the per-project map: the list of synopses and the character sum of each
\* project
ProjectMap(rs) == DictMap(ByProject(<<>>, rs))

\* the per-project map with each list of synopses taken as a bag
ProjectBags(rs) ==
    LET d == ByProject(<<>>, rs) IN
    {<<d[i].key, d[i].val.chars,
       {<<x, Cardinality({j \in 1..Len(d[i].val.summaries) :
                             d[i].val.summaries[j] = x})>> :
           x \in {d[i].val.summaries[j] : j \in 1..Len(d[i].val.summaries)}}>> :
        i \in 1..Len(d)}

AllCollected == pc = "scanning" /\ completed = Len(sessions)

\* C25: for any two orders in which the pool completes the same set of
\* tasks the reduce step gives the same category totals, the same label
\* totals, the same hourly map and the same per-project map (lists of
\* synopses and character sums).
C25_OrderIndependent ==
    AllCollected =>
        \A other \in Reorderings(results) :
            /\ TotalsOf(other) = TotalsOf(results)
            /\ ProjectMap(other) = ProjectMap(results)

\* C25 (what holds): the totals, the hourly map, the character sum of each
\* project and the synopses of each project as a bag do not depend on the
\* order of completion.
C25_SumsOrderIndependent ==
    AllCollected =>
        \A other \in Reorderings(results) :
            /\ TotalsOf(other) = TotalsOf(results)
            /\ ProjectBags(other) = ProjectBags(results)

\* C25 (reached): two files of one project whose tasks completed with
\* different synopses
C25_OrderDependentReached ==
    /\ AllCollected
    /\ Len(results) = 2
    /\ results[1].project = results[2].project
    /\ results[1].summary # results[2].summary
    /\ ProjectMap(<<results[2], results[1]>>) # ProjectMap(results)

----------------------------------------------------------------------------
(* C26 *)

\* the total length of the user turns of the file inside the window, as
\* extracted
ExtractedUserChars ==
    SumSeq([i \in 1..Len(FilteredTurns) |->
               IF FilteredTurns[i].role = "user"
               THEN Len(FilteredTurns[i].text) ELSE 0])

\* the same total with each turn longer than the chunk budget counted as the
\* budget plus the length of the truncation mark
ChunkedUserChars ==
    SumSeq([i \in 1..Len(FilteredTurns) |->
               IF FilteredTurns[i].role # "user" THEN 0
               ELSE IF Len(FilteredTurns[i].text) > DefaultMaxChars
               THEN DefaultMaxChars + Len(TruncSuffix)
               ELSE Len(FilteredTurns[i].text)])

\* C26: for every session total_user_chars equals the total length of the
\* user turns extracted inside the window, also when a user turn exceeds
\* the chunk budget and is truncated.
C26_CharsPreserved ==
    (pc = "processed" /\ session_result.kind = "result") =>
        session_result.value.total_user_chars = ExtractedUserChars

\* C26 (what holds): total_user_chars is the total length of the user turns
\* as the chunks hold them, a truncated turn counting for the budget plus
\* the 14 characters of the mark; it is the extracted total when no user
\* turn exceeds the budget.
C26_CharsOfChunkedTurns ==
    (pc = "processed" /\ session_result.kind = "result") =>
        /\ session_result.value.total_user_chars = ChunkedUserChars
        /\ (\A i \in 1..Len(FilteredTurns) :
               FilteredTurns[i].role = "user"
                   => Len(FilteredTurns[i].text) <= DefaultMaxChars)
              => session_result.value.total_user_chars = ExtractedUserChars

\* C26 (reached): a session with a truncated user turn, whose total is not
\* the extracted length
C26_TruncatedReached ==
    /\ pc = "processed" /\ session_result.kind = "result"
    /\ \E i \in 1..Len(FilteredTurns) :
          /\ FilteredTurns[i].role = "user"
          /\ Len(FilteredTurns[i].text) > DefaultMaxChars
    /\ session_result.value.total_user_chars # ExtractedUserChars

----------------------------------------------------------------------------
(* C27 *)

\* C27: consolidate_with_opus returns a list of the length of its input,
\* with the same project keys in the same order and the same chars per
\* project, whatever calls succeed or fail; the entries beyond the first 10
\* are the input entries themselves, and only the synopsis list of a top-10
\* project may differ.
C27_ProjectsFramePreserved ==
    pc = "projects_done" =>
        /\ Len(consolidated_projects) = Len(projects)
        /\ \A i \in 1..Len(projects) :
              LET e == ProjDeref(projects, consolidated_projects[i]) IN
              /\ DOMAIN e = DOMAIN projects[i]
              /\ e.project = projects[i].project
              /\ e.chars = projects[i].chars
              /\ i > TopProjects => consolidated_projects[i] = ProjRef(i - 1)
              /\ e.summaries # projects[i].summaries =>
                    /\ i <= TopProjects
                    /\ project_oracle[i] \notin Raised \cup {NoCall}

\* C27 (witness): a list of more than 10 projects, with a call that
\* succeeded, a call that failed and an entry beyond the slice
C27_Witness ==
    /\ pc = "projects_done"
    /\ Len(projects) > TopProjects
    /\ consolidated_projects[1].kind = "new"
    /\ project_oracle[TopProjects].kind = "raise"
    /\ consolidated_projects[Len(projects)] = ProjRef(Len(projects) - 1)
    /\ projects[Len(projects)].summaries = <<<<BulletLine>>>>

----------------------------------------------------------------------------
(* C28 *)

\* the texts of the user turns of a chunk
UserTexts(ch) ==
    LET users == SelectSeq(ch, LAMBDA t : t.role = "user") IN
    [i \in 1..Len(users) |-> users[i].text]

\* C28: for a fixed chunk the user_chars and user_turns of the ChunkResult
\* are the same under any two outcomes of the oracle call (any reply, a
\* timeout, an error): they are the total length and the number of the
\* chunk's user turns, counted locally.  Every outcome of every chunk is a
\* reachable state, so the two counts being a function of the chunk alone
\* in every state is their being equal under any two outcomes.
C28_CountsIndependentOfOracle ==
    pc = "classified" =>
        /\ chunk_result.user_turns = Len(UserTexts(chunk))
        /\ chunk_result.user_chars = Len(Flatten(UserTexts(chunk)))

\* C28 (witness): a chunk of a user turn and an assistant turn whose call
\* raised, counted as one user turn
C28_Witness ==
    /\ pc = "classified"
    /\ oracle.kind = "raise"
    /\ Len(chunk) = 2
    /\ chunk[1].role = "user" /\ chunk[2].role = "assistant"
    /\ chunk_result.user_turns = 1
    /\ chunk_result.user_chars = Len(chunk[1].text)

\* C28 (witness): the same for a reply that names numbers of its own
C28_ReplyReached ==
    /\ pc = "classified"
    /\ oracle.kind = "exit" /\ oracle.stdout = LinesOut(<<NoiseLine>>)
    /\ Len(chunk) = 2
    /\ chunk[1].role = "assistant" /\ chunk[2].role = "user"
    /\ chunk_result.user_turns = 1

----------------------------------------------------------------------------
(* C29 *)

\* the turns counted in the hourly entries of the report
HourlyTurns(hb) == SumSeq([i \in 1..Len(hb) |-> DictSum(hb[i].priorities)])

\* C29: in every report the category turn counts of all hourly_breakdown
\* entries sum to total_user_turns: a chunk lacks an hour only when it has
\* no user turn, so no counted turn is missing from the hourly map, and
\* every hour is in 0..23.
C29_HourlySumsToTotal ==
    pc = "reported" =>
        /\ HourlyTurns(report.hourly_breakdown) = report.total_user_turns
        /\ \A i \in 1..Len(report.hourly_breakdown) :
              /\ report.hourly_breakdown[i].hour \in 0..23
              /\ \A j \in 1..Len(report.hourly_breakdown) :
                    report.hourly_breakdown[j].hour
                        = report.hourly_breakdown[i].hour => i = j
        /\ \A i \in 1..Len(results) : \A k \in 1..Len(results[i].chunks) :
              results[i].chunks[k].hour = NoHour
                  => results[i].chunks[k].user_turns = 0

\* C29 (witness): a report over chunks of two different hours and a chunk
\* without hour
C29_Witness ==
    /\ pc = "reported"
    /\ Len(report.hourly_breakdown) = 2
    /\ report.total_user_turns = 2
    /\ \E i \in 1..Len(results) : \E k \in 1..Len(results[i].chunks) :
          results[i].chunks[k].hour = NoHour

----------------------------------------------------------------------------
(* C30 *)

\* a breakdown in the order generate_report gives it, with the turns of
\* total
SortedWithTotal(bd, total) ==
    /\ \A i \in 1..(Len(bd) - 1) : bd[i].turns >= bd[i + 1].turns
    /\ SumSeq([i \in 1..Len(bd) |-> bd[i].turns]) = total

C30_FailureReached ==
    /\ pc = "labels_done"
    /\ warnings # <<>>
    /\ Len(breakdown) > ConsolidateThreshold

\* C30, in the report: by_priority_name_raw is the breakdown built from the
\* collected results
C30_RawIsPreConsolidation ==
    pc = "reported" =>
        /\ report.by_priority_name_raw = NameBreakdown(Aggregate(results))
        /\ SortedWithTotal(report.by_priority_name_raw,
                           report.total_user_turns)

====
